---- MODULE Spec2Model ----
(***************************************************************************)
(* Safety-event pipeline of the smart-emergency server:                    *)
(*   POST /api/location/assess  (routes/location.js)                       *)
(*   POST /api/emergency/sos    (routes/emergency.js)                      *)
(*   the auth middleware        (middleware/auth.js)                       *)
(*                                                                         *)
(* Units.  Coordinates are JavaScript numbers; a finite coordinate is kept *)
(* in micro-degrees (3000 stands for 0.003 degrees).  A distance returned  *)
(* by distanceInMeters is kept in centimetres, rounded up, so that for a   *)
(* radius r kept in centimetres too  d <= r  in the code is  d <= r  here.  *)
(* JavaScript values are records [t, v]: t is "number" for a finite        *)
(* number, "Infinity" and "NaN" for the two non-finite numbers, "string"   *)
(* and "undefined" for values that are not numbers.                        *)
(***************************************************************************)
EXTENDS Integers, Sequences, FiniteSets, TLC

VARIABLES
    zoneStore,     \* DangerZone collection: sequence of zone documents
    users,         \* User collection: user id -> document
    fcmReady,      \* admin.apps.length > 0 (firebaseAdmin.js initialised)
    emergencies,   \* Emergency collection: sequence of saved documents
    sendLog,       \* calls made to admin.messaging().send, in order
    nextId,        \* next ObjectId handed out by new Emergency(...)
    sosCount,      \* number of requests received so far (assess apart)
    sos,           \* the POST /api/emergency/sos request being handled
    asr,           \* the POST /api/location/assess request being handled
    variant,       \* the copy of routes/emergency.js that is mounted
    parked,        \* a second SOS request in flight, waiting at its await
    leg,           \* the POST /api/emergency (legacy) request being handled
    dcall,         \* a call of distanceInMeters: its arguments and results
    voice,         \* HomeScreen voice monitoring: refs, state, timers, calls in flight
    pro            \* the request to routes/auth.js (account, profile) being handled

vars ==
    <<zoneStore, users, fcmReady, emergencies, sendLog, nextId, sosCount, sos, asr,
      variant, parked, leg, dcall, voice, pro>>

---------------------------------------------------------------------------
(* JavaScript values *)

Num(n) == [t |-> "number", v |-> n]
Infinity == [t |-> "Infinity", v |-> 0]
NaN == [t |-> "NaN", v |-> 0]
Str == [t |-> "string", v |-> 0]
Undefined == [t |-> "undefined", v |-> 0]

\* typeof x
TypeOf(x) == IF x.t \in {"number", "Infinity", "NaN"} THEN "number" ELSE x.t

IsFinite(x) == x.t = "number"

\* x + k for a number x and a finite k (Infinity + k = Infinity)
Plus(x, k) == IF x.t = "number" THEN Num(x.v + k) ELSE x

\* a <= b and a < b on numbers: false as soon as one side is NaN
Lte(a, b) ==
    /\ a.t # "NaN" /\ b.t # "NaN"
    /\ \/ b.t = "Infinity"
       \/ a.t = "number" /\ b.t = "number" /\ a.v <= b.v

Lt(a, b) ==
    /\ a.t # "NaN" /\ b.t # "NaN"
    /\ \/ a.t = "number" /\ b.t = "Infinity"
       \/ a.t = "number" /\ b.t = "number" /\ a.v < b.v

---------------------------------------------------------------------------
(* Bounds and program constants *)

MaxZones == 2          \* longest zone collection considered
MaxSos == 2            \* SOS requests received in one behaviour

DemoOffset == 5000     \* 0.005 degrees, in micro-degrees
DemoRadius == 40000    \* 400 metres, in centimetres

RiskLevels == {"SAFE", "CAUTION", "DANGER"}

---------------------------------------------------------------------------
(* distanceInMeters on the coordinates of the model *)

\* <<lat1, lng1, lat2, lng2>> in micro-degrees -> haversine distance, in
\* centimetres rounded up.
HaversineTable ==
    ( <<0, 0, 0, 0>> :> 0 ) @@
    ( <<0, 0, 3000, 0>> :> 33359 ) @@
    ( <<0, 0, 5000, 5000>> :> 78627 ) @@
    ( <<3000, 0, 0, 0>> :> 33359 ) @@
    ( <<3000, 0, 3000, 0>> :> 0 ) @@
    ( <<3000, 0, 8000, 5000>> :> 78627 ) @@
    ( <<5000, 0, 0, 0>> :> 55598 ) @@
    ( <<5000, 0, 3000, 0>> :> 22239 ) @@
    ( <<5000, 0, 10000, 5000>> :> 78627 ) @@
    ( <<91000000, 0, 0, 0>> :> 1011873833 ) @@
    ( <<91000000, 0, 3000, 0>> :> 1011840474 ) @@
    ( <<91000000, 0, 91005000, 5000>> :> 55606 ) @@
    ( <<0, 181000000, 0, 0>> :> 1990389187 ) @@
    ( <<0, 181000000, 3000, 0>> :> 1990389137 ) @@
    ( <<0, 181000000, 5000, 181005000>> :> 78627 ) @@
    ( <<0, 0, 5000, 0>> :> 55598 ) @@
    ( <<0, 0, 81710000, 0>> :> 908573746 ) @@
    ( <<0, 0, -81710000, 180000000>> :> 1092934934 ) @@
    ( <<0, 0, 8000000, 0>> :> 88955942 ) @@
    ( <<0, 0, -8000000, 180000000>> :> 1912552739 ) @@
    ( <<0, 0, 0, 180000000>> :> 2001508680 ) @@
    ( <<3000, 0, 5000, 0>> :> 22239 ) @@
    ( <<3000, 0, 81710000, 0>> :> 908540388 ) @@
    ( <<3000, 0, -81710000, 180000000>> :> 1092968293 ) @@
    ( <<3000, 0, 8000000, 0>> :> 88922583 ) @@
    ( <<3000, 0, -8000000, 180000000>> :> 1912586097 ) @@
    ( <<3000, 0, 0, 180000000>> :> 2001475322 ) @@
    ( <<5000, 0, 5000, 0>> :> 0 ) @@
    ( <<5000, 0, 81710000, 0>> :> 908518149 ) @@
    ( <<5000, 0, -81710000, 180000000>> :> 1092990532 ) @@
    ( <<5000, 0, 8000000, 0>> :> 88900344 ) @@
    ( <<5000, 0, -8000000, 180000000>> :> 1912608336 ) @@
    ( <<5000, 0, 0, 180000000>> :> 2001453083 ) @@
    ( <<81710000, 0, 0, 0>> :> 908573746 ) @@
    ( <<81710000, 0, 3000, 0>> :> 908540388 ) @@
    ( <<81710000, 0, 5000, 0>> :> 908518149 ) @@
    ( <<81710000, 0, 81710000, 0>> :> 0 ) @@
    ( <<81710000, 0, 8000000, 0>> :> 819617805 ) @@
    ( <<81710000, 0, -8000000, 180000000>> :> 1181890876 ) @@
    ( <<81710000, 0, 0, 180000000>> :> 1092934934 ) @@
    ( <<-81710000, 180000000, 0, 0>> :> 1092934934 ) @@
    ( <<-81710000, 180000000, 3000, 0>> :> 1092968293 ) @@
    ( <<-81710000, 180000000, 5000, 0>> :> 1092990532 ) @@
    ( <<-81710000, 180000000, -81710000, 180000000>> :> 0 ) @@
    ( <<-81710000, 180000000, 8000000, 0>> :> 1181890876 ) @@
    ( <<-81710000, 180000000, -8000000, 180000000>> :> 819617805 ) @@
    ( <<-81710000, 180000000, 0, 180000000>> :> 908573746 ) @@
    ( <<8000000, 0, 0, 0>> :> 88955942 ) @@
    ( <<8000000, 0, 3000, 0>> :> 88922583 ) @@
    ( <<8000000, 0, 5000, 0>> :> 88900344 ) @@
    ( <<8000000, 0, 81710000, 0>> :> 819617805 ) @@
    ( <<8000000, 0, -81710000, 180000000>> :> 1181890876 ) @@
    ( <<8000000, 0, 8000000, 0>> :> 0 ) @@
    ( <<8000000, 0, 0, 180000000>> :> 1912552739 ) @@
    ( <<-8000000, 180000000, 0, 0>> :> 1912552739 ) @@
    ( <<-8000000, 180000000, 3000, 0>> :> 1912586097 ) @@
    ( <<-8000000, 180000000, 5000, 0>> :> 1912608336 ) @@
    ( <<-8000000, 180000000, 81710000, 0>> :> 1181890876 ) @@
    ( <<-8000000, 180000000, -81710000, 180000000>> :> 819617805 ) @@
    ( <<-8000000, 180000000, -8000000, 180000000>> :> 0 ) @@
    ( <<-8000000, 180000000, 0, 180000000>> :> 88955942 ) @@
    ( <<0, 180000000, 0, 0>> :> 2001508680 ) @@
    ( <<0, 180000000, 3000, 0>> :> 2001475322 ) @@
    ( <<0, 180000000, 5000, 0>> :> 2001453083 ) @@
    ( <<0, 180000000, 81710000, 0>> :> 1092934934 ) @@
    ( <<0, 180000000, -81710000, 180000000>> :> 908573746 ) @@
    ( <<0, 180000000, 8000000, 0>> :> 1912552739 ) @@
    ( <<0, 180000000, -8000000, 180000000>> :> 88955942 ) @@
    ( <<0, 180000000, 0, 180000000>> :> 0 )

\* Arguments for which the haversine term a, as computed in double
\* precision, is 1 + 2^-52: the two points are antipodal and the rounded
\* squares of the sine and the cosine of the latitude add up to more than 1.
HaversineAboveOne ==
    {<<81710000, 0, -81710000, 180000000>>,
     <<-81710000, 180000000, 81710000, 0>>,
     <<8000000, 0, -8000000, 180000000>>,
     <<-8000000, 180000000, 8000000, 0>>}

\* distanceInMeters(lat1, lng1, lat2, lng2): a non-finite argument makes
\* dLat or dLng non-finite, Math.sin of it NaN, and the result NaN; with
\* a > 1, Math.sqrt(1 - a) is NaN and so are atan2 and the result.
distanceInMeters(lat1, lng1, lat2, lng2) ==
    IF IsFinite(lat1) /\ IsFinite(lng1) /\ IsFinite(lat2) /\ IsFinite(lng2)
    THEN IF <<lat1.v, lng1.v, lat2.v, lng2.v>> \in HaversineAboveOne
         THEN NaN
         ELSE Num(HaversineTable[<<lat1.v, lng1.v, lat2.v, lng2.v>>])
    ELSE NaN

\* Points given to distanceInMeters on its own: three points some hundred
\* metres apart, two pairs of antipodal points (81.71 N 0 E and 81.71 S
\* 180 E, 8 N 0 E and 8 S 180 E) and the point 0 N 180 E.
DistPoints ==
    {<<0, 0>>, <<3000, 0>>, <<5000, 0>>, <<81710000, 0>>, <<-81710000, 180000000>>,
     <<8000000, 0>>, <<-8000000, 180000000>>, <<0, 180000000>>}

DistIdle ==
    [pc |-> "idle", a |-> <<0, 0>>, b |-> <<0, 0>>, ab |-> Undefined, ba |-> Undefined,
     aa |-> Undefined]

\* The function is called on (a, b), on (b, a) and on (a, a).
DistanceApply ==
    /\ dcall.pc = "call"
    /\ LET d(p, q) == distanceInMeters(Num(p[1]), Num(p[2]), Num(q[1]), Num(q[2]))
       IN  dcall' = [dcall EXCEPT !.pc = "done", !.ab = d(dcall.a, dcall.b),
                                  !.ba = d(dcall.b, dcall.a), !.aa = d(dcall.a, dcall.a)]
    /\ UNCHANGED <<zoneStore, users, fcmReady, emergencies, sendLog, nextId, sosCount, sos,
                   asr, variant, parked, leg, voice, pro>>

---------------------------------------------------------------------------
(* DangerZone documents *)

ZoneCenters == {[lat |-> Num(0), lng |-> Num(0)], [lat |-> Num(3000), lng |-> Num(0)]}
\* radiusMeters, in centimetres: 0, and 333.59 m, which is the distance
\* between the two centres rounded up to the centimetre.
ZoneRadii == {0, 33359}

\* A document of the collection without its _id.
ZoneFields ==
    [center : ZoneCenters, radiusMeters : ZoneRadii, riskLevel : RiskLevels,
     active : BOOLEAN]

WithId(f, i) ==
    [_id |-> i, center |-> f.center, radiusMeters |-> f.radiusMeters,
     riskLevel |-> f.riskLevel, active |-> f.active]

\* The collection holding the documents fs[1..n]; document i has _id i.
ZoneStore(fs, n) == [i \in 1..n |-> WithId(fs[i], i)]

\* DangerZone.find({ active: true }).lean(): the active documents, in order
\* (the handler never reads the active field of what it gets, and the result
\* is kept without it).
Lean(z) ==
    [_id |-> z._id, center |-> z.center, radiusMeters |-> z.radiusMeters,
     riskLevel |-> z.riskLevel]

FindActive(store) ==
    LET act == SelectSeq(store, LAMBDA z : z.active)
    IN  [i \in 1..Len(act) |-> Lean(act[i])]

---------------------------------------------------------------------------
(* POST /api/location/assess: the computation after the zones are loaded *)

\* The in-memory zone used when no active zone is found ("demo-zone-1" is
\* _id 0; a stored document has _id >= 1).
DemoZone(latitude, longitude) ==
    [_id |-> 0,
     center |-> [lat |-> Plus(latitude, DemoOffset), lng |-> Plus(longitude, DemoOffset)],
     radiusMeters |-> DemoRadius, riskLevel |-> "DANGER"]

\* if (!zones.length) zones = [demo zone]
ZonesOrFallback(found, latitude, longitude) ==
    IF Len(found) = 0 THEN <<DemoZone(latitude, longitude)>> ELSE found

\* the entry pushed on activeZones for a zone z at distance d
ActiveEntry(z, d) ==
    [id |-> z._id, riskLevel |-> z.riskLevel, center |-> z.center,
     radiusMeters |-> z.radiusMeters, distanceMeters |-> d]

\* Variant: the boundary is taken as outside (d < z.radiusMeters).
IsWithinStrict(d, z) == Lt(d, Num(z.radiusMeters))

\* d <= z.radiusMeters
IsWithin(d, z) == Lte(d, Num(z.radiusMeters))

\* d < nearestDistance
IsNearer(d, nearestDistance) == Lt(d, nearestDistance)

\* Variant: a matched zone is put at the front of activeZones.
LoopBodyUnshifts(acc, z, latitude, longitude) ==
    LET d == distanceInMeters(latitude, longitude, z.center.lat, z.center.lng)
    IN  [activeZones |->
             IF IsWithin(d, z) THEN <<ActiveEntry(z, d)>> \o acc.activeZones
                               ELSE acc.activeZones,
         nearestDistance |->
             IF IsNearer(d, acc.nearestDistance) THEN d ELSE acc.nearestDistance,
         nearestZone |->
             IF IsNearer(d, acc.nearestDistance) THEN <<z>> ELSE acc.nearestZone]

\* One iteration of  for (const z of zones).  nearestZone is <<>> for null.
LoopBody(acc, z, latitude, longitude) ==
    LET d == distanceInMeters(latitude, longitude, z.center.lat, z.center.lng)
    IN  [activeZones |->
             IF IsWithin(d, z) THEN Append(acc.activeZones, ActiveEntry(z, d))
                               ELSE acc.activeZones,
         nearestDistance |->
             IF IsNearer(d, acc.nearestDistance) THEN d ELSE acc.nearestDistance,
         nearestZone |->
             IF IsNearer(d, acc.nearestDistance) THEN <<z>> ELSE acc.nearestZone]

RECURSIVE ScanZones(_, _, _, _)
\* The state of the loop after its first n iterations.
ScanZones(zones, n, latitude, longitude) ==
    IF n = 0
    THEN [activeZones |-> <<>>, nearestDistance |-> Infinity, nearestZone |-> <<>>]
    ELSE LoopBody(ScanZones(zones, n - 1, latitude, longitude), zones[n],
                  latitude, longitude)

\* Variant: CAUTION is looked for before DANGER.
AggregateRiskCautionFirst(activeZones) ==
    IF \E i \in 1..Len(activeZones) : activeZones[i].riskLevel = "CAUTION"
    THEN "CAUTION"
    ELSE IF \E i \in 1..Len(activeZones) : activeZones[i].riskLevel = "DANGER"
         THEN "DANGER"
         ELSE "SAFE"

\* Aggregate risk level
AggregateRisk(activeZones) ==
    IF \E i \in 1..Len(activeZones) : activeZones[i].riskLevel = "DANGER"
    THEN "DANGER"
    ELSE IF \E i \in 1..Len(activeZones) : activeZones[i].riskLevel = "CAUTION"
         THEN "CAUTION"
         ELSE "SAFE"

\* nearestZone of the response: null (<<>>) or the summary of the zone
NearestSummary(scan) ==
    IF Len(scan.nearestZone) = 0 THEN <<>>
    ELSE LET z == scan.nearestZone[1]
         IN  <<[id |-> z._id, center |-> z.center, radiusMeters |-> z.radiusMeters,
                riskLevel |-> z.riskLevel, distanceMeters |-> scan.nearestDistance]>>

\* The body of the 200 response for the zones evaluated.
AssessBody(zones, latitude, longitude) ==
    LET scan == ScanZones(zones, Len(zones), latitude, longitude)
    IN  [riskLevel |-> AggregateRisk(scan.activeZones),
         activeZones |-> scan.activeZones,
         nearestZone |-> NearestSummary(scan)]

NoBody == [riskLevel |-> "", activeZones |-> <<>>, nearestZone |-> <<>>]


---------------------------------------------------------------------------
(* middleware/auth.js *)

\* A credential is "none" (no header), "bad" (jwt.verify throws) or the id
\* of the user a valid token was issued to.
TokenUsers == {"u1", "u2", "u3"}
Tokens == {"none", "bad"} \cup TokenUsers

\* TRUE when the middleware calls next(); it answers 401 otherwise.
AuthPasses(token) == token \in TokenUsers

\* typeof latitude !== "number" || typeof longitude !== "number"
BadCoordinateTypes(latitude, longitude) ==
    TypeOf(latitude) # "number" \/ TypeOf(longitude) # "number"

\* The process serves requests until an exception escapes every handler:
\* the callback of jwt.sign in routes/auth.js rethrows its error, and when
\* it runs after the handler has returned nothing catches it (src/ installs
\* no uncaughtException handler), so the process ends and the requests in
\* flight are never answered.
ServerUp == pro.pc # "thrown"

---------------------------------------------------------------------------
(* POST /api/location/assess *)

\* trace lists what the handler has done for the request, in order: "auth",
\* "check" (the typeof test), "find" (DangerZone.find), "scan" (the loop
\* over the zones with distanceInMeters and the aggregation) and "respond".
AssessIdle ==
    [pc |-> "idle", token |-> "none", latitude |-> Undefined, longitude |-> Undefined,
     zones |-> <<>>, status |-> 0, body |-> NoBody, trace |-> <<>>]

\* A request arrives: the middleware and the handler run up to the await of
\* DangerZone.find.
AssessReceive(token, latitude, longitude) ==
    /\ ServerUp
    /\ asr.pc \in {"idle", "done"}
    /\ LET req == [AssessIdle EXCEPT !.token = token, !.latitude = latitude,
                                     !.longitude = longitude]
       IN  asr' = IF ~AuthPasses(token)
                  THEN [req EXCEPT !.pc = "done", !.status = 401,
                                   !.trace = <<"auth", "respond">>]
                  ELSE IF BadCoordinateTypes(latitude, longitude)
                       THEN [req EXCEPT !.pc = "done", !.status = 400,
                                        !.trace = <<"auth", "check", "respond">>]
                       ELSE [req EXCEPT !.pc = "find", !.trace = <<"auth", "check", "find">>]
    /\ UNCHANGED <<pro, voice, variant, parked, leg, dcall, zoneStore, users, fcmReady, emergencies, sendLog, nextId, sosCount, sos>>

\* DangerZone.find resolves: fallback, loop, aggregation and the 200 response.
AssessFindResolves ==
    /\ ServerUp
    /\ asr.pc = "find"
    /\ LET zones == ZonesOrFallback(FindActive(zoneStore), asr.latitude, asr.longitude)
       IN  asr' = [asr EXCEPT !.pc = "done", !.status = 200, !.zones = zones,
                              !.body = AssessBody(zones, asr.latitude, asr.longitude),
                              !.trace = @ \o <<"scan", "respond">>]
    /\ UNCHANGED <<pro, voice, variant, parked, leg, dcall, zoneStore, users, fcmReady, emergencies, sendLog, nextId, sosCount, sos>>

\* DangerZone.find rejects: the catch block answers 500.
AssessFindRejects ==
    /\ ServerUp
    /\ asr.pc = "find"
    /\ asr' = [asr EXCEPT !.pc = "done", !.status = 500, !.trace = Append(@, "respond")]
    /\ UNCHANGED <<pro, voice, variant, parked, leg, dcall, zoneStore, users, fcmReady, emergencies, sendLog, nextId, sosCount, sos>>

---------------------------------------------------------------------------
(* POST /api/emergency/sos *)

\* The repository holds two copies of routes/emergency.js.  "v2" destructures
\* mode and source and puts them, with evidenceUrl, in the push data and in
\* the response; "v1" knows neither and leaves evidenceUrl out of both.
Variants == {"v1", "v2"}

\* Optional strings are <<>> (undefined or null) or <<s>>.

\* !x for an optional string: undefined, null and "" are falsy
Falsy(opt) == Len(opt) = 0 \/ opt[1] = ""

\* x || default
OrDefault(opt, default) == IF Falsy(opt) THEN default ELSE opt[1]

\* x || null
OrNull(opt) == IF Falsy(opt) THEN <<>> ELSE opt

\* x as it is, "undefined" when there is none
AsIs(opt) == IF Len(opt) = 0 THEN "undefined" ELSE opt[1]

UserDocs ==
    [u1 |-> [name |-> "Ann", pushToken |-> <<"fcm-u1">>],
     u2 |-> [name |-> "Bob", pushToken |-> <<>>]]

\* User.findById(id): <<>> for null
FindUserById(id) == IF id \in DOMAIN users THEN <<users[id]>> ELSE <<>>

\* trace lists what the handler has done for the request, in order: "auth"
\* (the middleware), "check" (the typeof test), "findUser", "new" (new
\* Emergency), "save", "send" (the calls made) and "respond" (res.json).
SosIdle ==
    [pc |-> "idle", token |-> "none",
     body |-> [latitude |-> Undefined, longitude |-> Undefined, timestamp |-> <<>>,
               userId |-> <<>>, evidenceUrl |-> <<>>, mode |-> <<>>, source |-> <<>>],
     user |-> <<>>, newEmergency |-> <<>>, saved |-> "", status |-> 0,
     sendCalls |-> 0, pushLog |-> "", data |-> <<>>, trace |-> <<>>]

\* Variant: the userId of the body is preferred (userId || req.user?.id).
OwnerOfPrefersBody(token, body) ==
    IF Falsy(body.userId) THEN token ELSE body.userId[1]

\* req.user?.id || userId || null, with req.user.id the token's user id
OwnerOf(token, body) ==
    IF token \in TokenUsers THEN token ELSE OrDefault(body.userId, "null")

\* new Emergency({...}) under the schema of models/Emergency.js: the schema
\* is strict, so triggeredAt, source and mode are not part of the document.
NewEmergency(id, token, body) ==
    [_id |-> id,
     user |-> OwnerOf(token, body),
     location |-> [lat |-> body.latitude, lng |-> body.longitude],
     evidenceUrl |-> OrNull(body.evidenceUrl)]

\* Variant: the push is attempted whether or not the user has a push token.
ShouldPushIgnoresToken(user, ready) == Len(user) = 1 /\ ready

\* Variant: a discreet SOS is not pushed.
ShouldPushUnlessDiscreet(user, ready) ==
    /\ Len(user) = 1 /\ ~Falsy(user[1].pushToken) /\ ready
    /\ sos.body.mode # <<"DISCREET">>

\* user?.pushToken && admin?.apps?.length
ShouldPush(user, ready) == Len(user) = 1 /\ ~Falsy(user[1].pushToken) /\ ready

\* user.name || "A user"
NameOf(user) == IF user.name = "" THEN "A user" ELSE user.name

\* The message handed to admin.messaging().send; token is user.pushToken
\* (undefined when the user has none).
PushMessageV2(user, em, body) ==
    LET isDiscreet == body.mode = <<"DISCREET">>
    IN  [token |-> AsIs(user.pushToken),
         title |-> IF isDiscreet THEN "Discreet SOS Triggered" ELSE "SOS Triggered",
         body  |-> [name |-> NameOf(user), discreet |-> isDiscreet,
                    latitude |-> body.latitude, longitude |-> body.longitude],
         data  |-> [emergencyId |-> em._id, latitude |-> body.latitude,
                    longitude |-> body.longitude,
                    timestamp |-> OrDefault(body.timestamp, "now"),
                    evidenceUrl |-> OrDefault(body.evidenceUrl, ""),
                    mode |-> OrDefault(body.mode, "NORMAL"),
                    source |-> OrDefault(body.source, "MOBILE_SOS")]]

PushMessageV1(user, em, body) ==
    [token |-> AsIs(user.pushToken),
     title |-> "SOS Triggered",
     body  |-> [name |-> NameOf(user), latitude |-> body.latitude,
                longitude |-> body.longitude],
     data  |-> [emergencyId |-> em._id, latitude |-> body.latitude,
                longitude |-> body.longitude,
                timestamp |-> OrDefault(body.timestamp, "now")]]

PushMessage(user, em, body) ==
    IF variant = "v2" THEN PushMessageV2(user, em, body) ELSE PushMessageV1(user, em, body)

\* data of the 200 response
SosDataV2(em, token, body) ==
    <<[id |-> em._id, latitude |-> body.latitude, longitude |-> body.longitude,
       timestamp |-> OrDefault(body.timestamp, "now"),
       userId |-> OwnerOf(token, body),
       evidenceUrl |-> OrNull(body.evidenceUrl),
       mode |-> OrDefault(body.mode, "NORMAL"),
       source |-> OrDefault(body.source, "MOBILE_SOS")]>>

SosDataV1(em, token, body) ==
    <<[id |-> em._id, latitude |-> body.latitude, longitude |-> body.longitude,
       timestamp |-> OrDefault(body.timestamp, "now"),
       userId |-> OwnerOf(token, body)]>>

SosData(em, token, body) ==
    IF variant = "v2" THEN SosDataV2(em, token, body) ELSE SosDataV1(em, token, body)

\* Variant: the document is saved before the coordinates are checked.
SosReceiveSavesFirst(token, body) ==
    /\ ServerUp
    /\ sos.pc \in {"idle", "done"}
    /\ sosCount < MaxSos
    /\ sosCount' = sosCount + 1
    /\ LET req == [SosIdle EXCEPT !.token = token, !.body = body]
           bad == AuthPasses(token) /\ BadCoordinateTypes(body.latitude, body.longitude)
       IN  /\ sos' = IF ~AuthPasses(token)
                     THEN [req EXCEPT !.pc = "done", !.status = 401]
                     ELSE IF bad
                          THEN [req EXCEPT !.pc = "done", !.status = 400]
                          ELSE [req EXCEPT !.pc = "findUser"]
           /\ emergencies' = IF bad THEN Append(emergencies, NewEmergency(nextId, token, body))
                                   ELSE emergencies
           /\ nextId' = IF bad THEN nextId + 1 ELSE nextId
    /\ UNCHANGED <<pro, voice, variant, parked, leg, dcall, zoneStore, users, fcmReady, sendLog, asr>>

\* A request arrives: the middleware and the handler run up to the await of
\* User.findById.
SosReceive(token, body) ==
    /\ ServerUp
    /\ sos.pc \in {"idle", "done"}
    /\ sosCount < MaxSos
    /\ sosCount' = sosCount + 1
    /\ LET req == [SosIdle EXCEPT !.token = token, !.body = body]
       IN  sos' = IF ~AuthPasses(token)
                  THEN [req EXCEPT !.pc = "done", !.status = 401,
                                   !.trace = <<"auth", "respond">>]
                  ELSE IF BadCoordinateTypes(body.latitude, body.longitude)
                       THEN [req EXCEPT !.pc = "done", !.status = 400,
                                        !.trace = <<"auth", "check", "respond">>]
                       ELSE [req EXCEPT !.pc = "findUser",
                                        !.trace = <<"auth", "check", "findUser">>]
    /\ UNCHANGED <<pro, voice, variant, parked, leg, dcall, zoneStore, users, fcmReady, emergencies, sendLog, nextId, asr>>

\* Variant: the request body is kept in a variable shared by the
\* invocations, so the document is built from the body received last.
SosFindUserResolvesSharedBody ==
    /\ ServerUp
    /\ sos.pc = "findUser"
    /\ LET body == IF parked.pc # "idle" THEN parked.body ELSE sos.body
       IN  sos' = [sos EXCEPT !.pc = "save", !.user = FindUserById(sos.token),
                              !.newEmergency = <<NewEmergency(nextId, sos.token, body)>>]
    /\ nextId' = nextId + 1
    /\ UNCHANGED <<pro, voice, variant, parked, leg, dcall, zoneStore, users, fcmReady, emergencies, sendLog,
                   sosCount, asr>>

\* User.findById resolves: the document is built and save() is awaited.
SosFindUserResolves ==
    /\ ServerUp
    /\ sos.pc = "findUser"
    /\ sos' = [sos EXCEPT !.pc = "save", !.user = FindUserById(sos.token),
                          !.newEmergency = <<NewEmergency(nextId, sos.token, sos.body)>>,
                          !.trace = @ \o <<"new", "save">>]
    /\ nextId' = nextId + 1
    /\ UNCHANGED <<pro, voice, variant, parked, leg, dcall, zoneStore, users, fcmReady, emergencies, sendLog, sosCount, asr>>

\* Variant: a lookup that throws is caught and the handler goes on to save
\* the record without a profile.
SosFindUserRejectsSavesAnyway ==
    /\ ServerUp
    /\ sos.pc = "findUser"
    /\ sos' = [sos EXCEPT !.pc = "save", !.user = <<>>,
                          !.newEmergency = <<NewEmergency(nextId, sos.token, sos.body)>>,
                          !.trace = @ \o <<"new", "save">>]
    /\ nextId' = nextId + 1
    /\ UNCHANGED <<pro, voice, variant, parked, leg, dcall, zoneStore, users, fcmReady, emergencies,
                   sendLog, sosCount, asr>>

\* User.findById rejects: the catch block answers 500.
SosFindUserRejects ==
    /\ ServerUp
    /\ sos.pc = "findUser"
    /\ sos' = [sos EXCEPT !.pc = "done", !.status = 500, !.trace = Append(@, "respond")]
    /\ UNCHANGED <<pro, voice, variant, parked, leg, dcall, zoneStore, users, fcmReady, emergencies, sendLog, nextId, sosCount, asr>>

\* Variant: save() does not insert a document whose user, location and
\* evidenceUrl equal those of a stored one.
SosSaveResolvesDeduplicates ==
    /\ ServerUp
    /\ sos.pc = "save"
    /\ emergencies' =
          IF \E k \in 1..Len(emergencies) :
                 [emergencies[k] EXCEPT !._id = 0] = [sos.newEmergency[1] EXCEPT !._id = 0]
          THEN emergencies
          ELSE Append(emergencies, sos.newEmergency[1])
    /\ IF ShouldPush(sos.user, fcmReady)
       THEN /\ sendLog' = Append(sendLog, PushMessage(sos.user[1], sos.newEmergency[1], sos.body))
            /\ sos' = [sos EXCEPT !.pc = "send", !.saved = "ok", !.sendCalls = @ + 1]
       ELSE /\ sendLog' = sendLog
            /\ sos' = [sos EXCEPT !.pc = "done", !.saved = "ok", !.status = 200,
                                  !.pushLog = "skipped",
                                  !.data = SosData(sos.newEmergency[1], sos.token, sos.body)]
    /\ UNCHANGED <<pro, voice, variant, parked, leg, dcall, zoneStore, users, fcmReady, nextId, sosCount, asr>>

\* save() resolves: the document is in the collection; then either send() is
\* called and awaited, or the push is skipped and the response is 200.
SosSaveResolves ==
    /\ ServerUp
    /\ sos.pc = "save"
    /\ emergencies' = Append(emergencies, sos.newEmergency[1])
    /\ IF ShouldPush(sos.user, fcmReady)
       THEN /\ sendLog' = Append(sendLog, PushMessage(sos.user[1], sos.newEmergency[1], sos.body))
            /\ sos' = [sos EXCEPT !.pc = "send", !.saved = "ok", !.sendCalls = @ + 1,
                                  !.trace = Append(@, "send")]
       ELSE /\ sendLog' = sendLog
            /\ sos' = [sos EXCEPT !.pc = "done", !.saved = "ok", !.status = 200,
                                  !.pushLog = "skipped",
                                  !.data = SosData(sos.newEmergency[1], sos.token, sos.body),
                                  !.trace = Append(@, "respond")]
    /\ UNCHANGED <<pro, voice, variant, parked, leg, dcall, zoneStore, users, fcmReady, nextId, sosCount, asr>>

\* Variant: the push is attempted although save() rejected.
SosSaveRejectsThenPushes ==
    /\ ServerUp
    /\ sos.pc = "save"
    /\ IF ShouldPush(sos.user, fcmReady)
       THEN /\ sendLog' = Append(sendLog, PushMessage(sos.user[1], sos.newEmergency[1], sos.body))
            /\ sos' = [sos EXCEPT !.pc = "done", !.saved = "rejected", !.status = 500,
                                  !.sendCalls = @ + 1]
       ELSE /\ sendLog' = sendLog
            /\ sos' = [sos EXCEPT !.pc = "done", !.saved = "rejected", !.status = 500]
    /\ UNCHANGED <<pro, voice, variant, parked, leg, dcall, zoneStore, users, fcmReady, emergencies, nextId, sosCount, asr>>

\* save() rejects: the catch block answers 500.
SosSaveRejects ==
    /\ ServerUp
    /\ sos.pc = "save"
    /\ sos' = [sos EXCEPT !.pc = "done", !.saved = "rejected", !.status = 500,
                          !.trace = Append(@, "respond")]
    /\ UNCHANGED <<pro, voice, variant, parked, leg, dcall, zoneStore, users, fcmReady, emergencies, sendLog, nextId, sosCount, asr>>

\* Variant: a rejected send() reaches the outer catch block.
SosSendSettlesPropagates(ok) ==
    /\ ServerUp
    /\ sos.pc = "send"
    /\ sos' = IF ok
              THEN [sos EXCEPT !.pc = "done", !.status = 200, !.pushLog = "sent",
                               !.data = SosData(sos.newEmergency[1], sos.token, sos.body)]
              ELSE [sos EXCEPT !.pc = "done", !.status = 500, !.pushLog = "failed"]
    /\ UNCHANGED <<pro, voice, variant, parked, leg, dcall, zoneStore, users, fcmReady, emergencies, sendLog, nextId, sosCount, asr>>

\* Variant: a rejected send() is retried once before the response.
SosSendSettlesRetries(ok) ==
    /\ ServerUp
    /\ sos.pc = "send"
    /\ sos' = [sos EXCEPT !.pc = "done", !.status = 200,
                          !.pushLog = IF ok THEN "sent" ELSE "failed",
                          !.sendCalls = IF ok THEN @ ELSE @ + 1,
                          !.data = SosData(sos.newEmergency[1], sos.token, sos.body)]
    /\ sendLog' = IF ok THEN sendLog
                  ELSE Append(sendLog, PushMessage(sos.user[1], sos.newEmergency[1], sos.body))
    /\ UNCHANGED <<pro, voice, variant, parked, leg, dcall, zoneStore, users, fcmReady, emergencies, nextId, sosCount, asr>>

\* Variant: the push token of the user is removed when send() rejects.
SosSendSettlesDropsToken(ok) ==
    /\ ServerUp
    /\ sos.pc = "send"
    /\ sos' = [sos EXCEPT !.pc = "done", !.status = 200,
                          !.pushLog = IF ok THEN "sent" ELSE "failed",
                          !.data = SosData(sos.newEmergency[1], sos.token, sos.body)]
    /\ users' = IF ok THEN users ELSE [users EXCEPT ![sos.token].pushToken = <<>>]
    /\ UNCHANGED <<pro, voice, variant, parked, leg, dcall, zoneStore, fcmReady, emergencies, sendLog, nextId,
                   sosCount, asr>>

\* send() resolves, or rejects and the inner catch logs it; pushLog is the
\* console line written ("sent", "failed", or "skipped" above).
SosSendSettles(ok) ==
    /\ ServerUp
    /\ sos.pc = "send"
    /\ sos' = [sos EXCEPT !.pc = "done", !.status = 200,
                          !.pushLog = IF ok THEN "sent" ELSE "failed",
                          !.data = SosData(sos.newEmergency[1], sos.token, sos.body),
                          !.trace = Append(@, "respond")]
    /\ UNCHANGED <<pro, voice, variant, parked, leg, dcall, zoneStore, users, fcmReady, emergencies, sendLog, nextId, sosCount, asr>>

SosSendResolves == SosSendSettles(TRUE)
SosSendRejects == SosSendSettles(FALSE)

---------------------------------------------------------------------------
(* The event loop with two SOS requests in flight *)

\* Between two awaits the handler of one request runs alone; at an await the
\* event loop may continue the other request.  sos is the request whose
\* continuation runs next, parked the one that waits.
Switch ==
    /\ sos.pc # "idle" \/ parked.pc # "idle"
    /\ sos' = parked
    /\ parked' = sos
    /\ UNCHANGED <<pro, voice, variant, leg, dcall, zoneStore, users, fcmReady, emergencies, sendLog, nextId,
                   sosCount, asr>>

---------------------------------------------------------------------------
(* POST /api/emergency (the old endpoint) *)

LegacyIdle ==
    [pc |-> "idle", token |-> "none", lat |-> Undefined, lng |-> Undefined,
     evidenceUrl |-> <<>>, newEmergency |-> <<>>, status |-> 0]

\* new Emergency({user: req.user.id, location: {lat, lng}, evidenceUrl})
LegacyEmergency(id, token, lat, lng, evidenceUrl) ==
    [_id |-> id, user |-> token, location |-> [lat |-> lat, lng |-> lng],
     evidenceUrl |-> evidenceUrl]

\* A request arrives: the middleware, the construction of the document and
\* the call of save().
LegacyReceive(token, lat, lng, evidenceUrl) ==
    /\ ServerUp
    /\ leg.pc \in {"idle", "done"}
    /\ sosCount < MaxSos
    /\ sosCount' = sosCount + 1
    /\ LET req == [LegacyIdle EXCEPT !.token = token, !.lat = lat, !.lng = lng,
                                     !.evidenceUrl = evidenceUrl]
       IN  IF ~AuthPasses(token)
           THEN /\ leg' = [req EXCEPT !.pc = "done", !.status = 401]
                /\ nextId' = nextId
           ELSE /\ leg' = [req EXCEPT !.pc = "save",
                              !.newEmergency =
                                  <<LegacyEmergency(nextId, token, lat, lng, evidenceUrl)>>]
                /\ nextId' = nextId + 1
    /\ UNCHANGED <<pro, voice, variant, parked, dcall, zoneStore, users, fcmReady, emergencies, sendLog, sos, asr>>

\* Variant: the old endpoint keeps one record per user: save() replaces the
\* user's stored record.
LegacySaveResolvesUpserts ==
    /\ ServerUp
    /\ leg.pc = "save"
    /\ emergencies' =
          IF \E k \in 1..Len(emergencies) : emergencies[k].user = leg.token
          THEN [k \in 1..Len(emergencies) |->
                   IF emergencies[k].user = leg.token THEN leg.newEmergency[1]
                   ELSE emergencies[k]]
          ELSE Append(emergencies, leg.newEmergency[1])
    /\ leg' = [leg EXCEPT !.pc = "done", !.status = 200]
    /\ UNCHANGED <<pro, voice, variant, parked, dcall, zoneStore, users, fcmReady, sendLog, nextId, sosCount,
                   sos, asr>>

\* save() resolves: the document is in the collection.  The handler checks
\* neither lat nor lng; whether the schema's validation lets a document
\* through is left open, so save() may resolve or reject for every input.
LegacySaveResolves ==
    /\ ServerUp
    /\ leg.pc = "save"
    /\ emergencies' = Append(emergencies, leg.newEmergency[1])
    /\ leg' = [leg EXCEPT !.pc = "done", !.status = 200]
    /\ UNCHANGED <<pro, voice, variant, parked, dcall, zoneStore, users, fcmReady, sendLog, nextId, sosCount,
                   sos, asr>>

\* save() rejects: the catch block answers 500.
LegacySaveRejects ==
    /\ ServerUp
    /\ leg.pc = "save"
    /\ leg' = [leg EXCEPT !.pc = "done", !.status = 500]
    /\ UNCHANGED <<pro, voice, variant, parked, dcall, zoneStore, users, fcmReady, emergencies, sendLog, nextId,
                   sosCount, sos, asr>>

---------------------------------------------------------------------------
(* routes/auth.js: register, login and the handlers of the caller's document *)

\* A user document is modelled by the fields the SOS handler uses, name and
\* pushToken; email stands behind the user id (the schema makes it unique).
\* route is "register" (POST /register), "login" (POST /login), "me"
\* (PUT /me), "pushToken" (POST /register-push-token) or "contact" (POST
\* /emergency-contacts).  id is the token's user or, for register and
\* login, the user the email belongs to; arg is the name, the pushToken or
\* the contact's name of the body, and phone the contact's phone.
ProfileIdle ==
    [pc |-> "idle", route |-> "", id |-> "none", arg |-> <<>>, phone |-> <<>>,
     status |-> 0]

ProfileRoutes == {"register", "login", "me", "pushToken", "contact"}

\* String.prototype.trim on the names considered
Trim(s) == CASE s = " Anna " -> "Anna" [] s = "  " -> "" [] OTHER -> s

\* typeof name === "string" && name.trim() !== ""
IsNewName(arg) == Len(arg) = 1 /\ Trim(arg[1]) # ""

\* A request arrives.  register and login have no middleware and look the
\* email up.  The others pass the middleware; register-push-token answers
\* 400 to a body without pushToken and the contact route to a body without
\* name or without phone; then the caller's document is loaded.
ProfileReceive(route, id, arg, phone) ==
    /\ ServerUp
    /\ pro.pc \in {"idle", "done"}
    /\ sosCount < MaxSos
    /\ sosCount' = sosCount + 1
    /\ LET req == [ProfileIdle EXCEPT !.route = route, !.id = id, !.arg = arg,
                                      !.phone = phone]
       IN  pro' = CASE route \in {"register", "login"} -> [req EXCEPT !.pc = "find"]
                    [] ~AuthPasses(id) -> [req EXCEPT !.pc = "done", !.status = 401]
                    [] route = "pushToken" /\ Falsy(arg) ->
                          [req EXCEPT !.pc = "done", !.status = 400]
                    [] route = "contact" /\ (Falsy(arg) \/ Falsy(phone)) ->
                          [req EXCEPT !.pc = "done", !.status = 400]
                    [] OTHER -> [req EXCEPT !.pc = "find"]
    /\ UNCHANGED <<voice, variant, parked, leg, dcall, zoneStore, users, fcmReady, emergencies,
                   sendLog, nextId, sos, asr>>

\* User.findOne({email}) or User.findById(req.user.id) resolves.  register
\* answers 400 when the user exists and goes on to hash the password
\* otherwise; login answers 400 when there is no user and compares the
\* password otherwise; the others answer 404 when there is no document, and
\* set their field and save otherwise.
ProfileFindResolves ==
    /\ ServerUp
    /\ pro.pc = "find"
    /\ pro' = CASE pro.route = "register" ->
                      IF pro.id \in DOMAIN users
                      THEN [pro EXCEPT !.pc = "done", !.status = 400]
                      ELSE [pro EXCEPT !.pc = "salt"]
                [] pro.route = "login" ->
                      IF FindUserById(pro.id) = <<>>
                      THEN [pro EXCEPT !.pc = "done", !.status = 400]
                      ELSE [pro EXCEPT !.pc = "compare"]
                [] OTHER ->
                      IF FindUserById(pro.id) = <<>>
                      THEN [pro EXCEPT !.pc = "done", !.status = 404]
                      ELSE [pro EXCEPT !.pc = "save"]
    /\ UNCHANGED <<voice, variant, parked, leg, dcall, zoneStore, users, fcmReady, emergencies,
                   sendLog, nextId, sosCount, sos, asr>>

\* The lookup rejects: the catch block answers 500.
ProfileFindRejects ==
    /\ ServerUp
    /\ pro.pc = "find"
    /\ pro' = [pro EXCEPT !.pc = "done", !.status = 500]
    /\ UNCHANGED <<voice, variant, parked, leg, dcall, zoneStore, users, fcmReady, emergencies,
                   sendLog, nextId, sosCount, sos, asr>>

\* register: bcrypt.genSalt, then bcrypt.hash, settle.
ProfileHashSettles ==
    /\ ServerUp
    /\ pro.pc \in {"salt", "hash"}
    /\ \E out \in {"returns", "throws"} :
          pro' = IF out = "throws" THEN [pro EXCEPT !.pc = "done", !.status = 500]
                 ELSE [pro EXCEPT !.pc = IF pro.pc = "salt" THEN "hash" ELSE "save"]
    /\ UNCHANGED <<voice, variant, parked, leg, dcall, zoneStore, users, fcmReady, emergencies,
                   sendLog, nextId, sosCount, sos, asr>>

\* jwt.sign(payload, secret, options, callback) is called inside the try.
\* It either calls back at once with an error, which the callback rethrows
\* into the handler's catch (500), or it returns and calls back later.
AfterSignCall(p, sign) ==
    IF sign = "errorAtOnce" THEN [p EXCEPT !.pc = "done", !.status = 500]
    ELSE [p EXCEPT !.pc = "sign"]

\* login: bcrypt.compare settles.  A wrong password is answered 400, a
\* throw 500; after a match the token is signed.
ProfileCompareSettles ==
    /\ ServerUp
    /\ pro.pc = "compare"
    /\ \E out \in {"match", "mismatch", "throws"}, sign \in {"later", "errorAtOnce"} :
          pro' = CASE out = "match" -> AfterSignCall(pro, sign)
                   [] out = "mismatch" -> [pro EXCEPT !.pc = "done", !.status = 400]
                   [] OTHER -> [pro EXCEPT !.pc = "done", !.status = 500]
    /\ UNCHANGED <<voice, variant, parked, leg, dcall, zoneStore, users, fcmReady, emergencies,
                   sendLog, nextId, sosCount, sos, asr>>

\* What user.save() writes: the new document, or the path the handler set.
SavedUsers(us, route, id, arg) ==
    CASE route = "register" -> us @@ (id :> [name |-> arg[1], pushToken |-> <<>>])
      [] route = "pushToken" -> [us EXCEPT ![id].pushToken = arg]
      [] route = "me" /\ IsNewName(arg) -> [us EXCEPT ![id].name = Trim(arg[1])]
      [] OTHER -> us

\* user.save() resolves; for a new user that takes a name (required) and an
\* email no document has (unique).  register goes on to sign the token,
\* PUT /me loads the document again, the contact route answers 201 and
\* register-push-token 200.
ProfileSaveResolves ==
    /\ ServerUp
    /\ pro.pc = "save"
    /\ pro.route = "register" => (pro.id \notin DOMAIN users /\ ~Falsy(pro.arg))
    /\ users' = SavedUsers(users, pro.route, pro.id, pro.arg)
    /\ \E sign \in {"later", "errorAtOnce"} :
          pro' = CASE pro.route = "register" -> AfterSignCall(pro, sign)
                   [] pro.route = "me" -> [pro EXCEPT !.pc = "reload"]
                   [] pro.route = "contact" -> [pro EXCEPT !.pc = "done", !.status = 201]
                   [] OTHER -> [pro EXCEPT !.pc = "done", !.status = 200]
    /\ UNCHANGED <<voice, variant, parked, leg, dcall, zoneStore, fcmReady, emergencies,
                   sendLog, nextId, sosCount, sos, asr>>

\* user.save() rejects: the catch block answers 500.
ProfileSaveRejects ==
    /\ ServerUp
    /\ pro.pc = "save"
    /\ pro' = [pro EXCEPT !.pc = "done", !.status = 500]
    /\ UNCHANGED <<voice, variant, parked, leg, dcall, zoneStore, users, fcmReady, emergencies,
                   sendLog, nextId, sosCount, sos, asr>>

\* PUT /me: the second findById settles.
ProfileReloadSettles ==
    /\ ServerUp
    /\ pro.pc = "reload"
    /\ \E out \in {"returns", "throws"} :
          pro' = [pro EXCEPT !.pc = "done", !.status = IF out = "returns" THEN 200 ELSE 500]
    /\ UNCHANGED <<voice, variant, parked, leg, dcall, zoneStore, users, fcmReady, emergencies,
                   sendLog, nextId, sosCount, sos, asr>>

\* register, login: the callback of jwt.sign runs after the handler has
\* returned.  With a token it answers 200; with an error it throws with
\* nothing to catch it: no response is sent and the process ends.
ProfileSignSettles ==
    /\ ServerUp
    /\ pro.pc = "sign"
    /\ \E out \in {"token", "error"} :
          pro' = IF out = "token" THEN [pro EXCEPT !.pc = "done", !.status = 200]
                 ELSE [pro EXCEPT !.pc = "thrown"]
    /\ UNCHANGED <<voice, variant, parked, leg, dcall, zoneStore, users, fcmReady, emergencies,
                   sendLog, nextId, sosCount, sos, asr>>

---------------------------------------------------------------------------
(* Requests considered *)

\* (latitude, longitude) of a request body: a valid point, an out-of-range
\* latitude (91 degrees), an out-of-range longitude (181 degrees), 1e999
\* (which JSON.parse reads as Infinity), a string and a missing field.
ValidPoints == {<<Num(0), Num(0)>>, <<Num(3000), Num(0)>>, <<Num(5000), Num(0)>>}
OutOfRangePoints == {<<Num(91000000), Num(0)>>, <<Num(0), Num(181000000)>>}
NonFinitePoints == {<<Infinity, Num(0)>>}
NonNumberPoints == {<<Str, Num(0)>>, <<Num(0), Undefined>>}

AssessPoints == ValidPoints \cup OutOfRangePoints \cup NonFinitePoints \cup NonNumberPoints

\* <<token, point>>: every point with a valid token, one point without.
AssessInputs ==
    ({"none", "bad"} \X {<<Num(0), Num(0)>>}) \cup ({"u1"} \X AssessPoints)

SosBody(pt, ts, uid, ev, mode, src) ==
    [latitude |-> pt[1], longitude |-> pt[2], timestamp |-> ts, userId |-> uid,
     evidenceUrl |-> ev, mode |-> mode, source |-> src]

SosPoints ==
    {<<Num(0), Num(0)>>} \cup OutOfRangePoints \cup NonFinitePoints \cup NonNumberPoints

\* The valid point with every optional field an empty string
EmptyStringsBody == SosBody(<<Num(0), Num(0)>>, <<"">>, <<"">>, <<"">>, <<"">>, <<"">>)

\* Every kind of point with the optional fields absent, the valid point
\* with each optional field given or empty, and the valid point with the
\* userId of user u2 in the body.
SosBodies ==
    {SosBody(pt, <<>>, <<>>, <<>>, <<>>, <<>>) : pt \in SosPoints} \cup
    {SosBody(<<Num(0), Num(0)>>, <<>>, <<>>, ev, mode, <<>>) :
        ev \in {<<>>, <<"s3://clip">>}, mode \in {<<>>, <<"NORMAL">>, <<"DISCREET">>}} \cup
    {SosBody(<<Num(0), Num(0)>>, <<>>, <<"u2">>, <<>>, <<>>, <<>>), EmptyStringsBody}

PlainBody == SosBody(<<Num(0), Num(0)>>, <<>>, <<>>, <<>>, <<>>, <<>>)

\* <<token, body>>: every body from the two stored users, the plain body
\* without a valid token and from a user who has no document.
SosInputs ==
    ({"none", "bad", "u3"} \X {PlainBody}) \cup ({"u1", "u2"} \X SosBodies)

\* <<token, body>> of the runs with two requests in flight: two users, the
\* plain body and the body with an evidenceUrl, in each mode.
ConcBodies ==
    {SosBody(<<Num(0), Num(0)>>, <<>>, <<>>, ev, mode, <<>>) :
        ev \in {<<>>, <<"s3://clip">>}, mode \in {<<>>, <<"DISCREET">>}}

ConcInputs == {"u1", "u2"} \X ConcBodies

\* Requests of the runs over all three endpoints.
AllSosInputs ==
    {<<"none", PlainBody>>, <<"u1", PlainBody>>, <<"u2", PlainBody>>,
     <<"u1", SosBody(<<Str, Num(0)>>, <<>>, <<>>, <<>>, <<>>, <<>>)>>}

\* <<token, lat, lng, evidenceUrl>> of the old endpoint
LegacyInputs ==
    {<<"none", Num(0), Num(0), <<>>>>, <<"u1", Num(0), Num(0), <<>>>>,
     <<"u2", Num(0), Num(0), <<"s3://clip">>>>, <<"u1", Undefined, Undefined, <<>>>>}

\* <<route, id, arg, phone>> of the requests to routes/auth.js
ProfileInputs ==
    {<<"pushToken", "none", <<"fcm-u2">>, <<>>>>, <<"pushToken", "u2", <<"fcm-u2">>, <<>>>>,
     <<"pushToken", "u1", <<"">>, <<>>>>, <<"pushToken", "u3", <<"fcm-u3">>, <<>>>>,
     <<"me", "u1", <<" Anna ">>, <<>>>>, <<"me", "u2", <<"  ">>, <<>>>>,
     <<"register", "u3", <<"Cy">>, <<>>>>, <<"register", "u1", <<"Ann">>, <<>>>>,
     <<"login", "u1", <<>>, <<>>>>, <<"login", "u3", <<>>, <<>>>>,
     <<"contact", "u1", <<"Dan">>, <<"077">>>>, <<"contact", "u2", <<"Dan">>, <<>>>>}

AllAssessInputs ==
    {<<"none", <<Num(0), Num(0)>>>>, <<"u1", <<Num(0), Num(0)>>>>,
     <<"u1", <<Str, Num(0)>>>>}

---------------------------------------------------------------------------
(* SmartEmergencyMobile/screens/HomeScreen.js: voice monitoring *)

\* Recording objects the screen may create, and taps (of the voice button,
\* of the SOS buttons and of "Send SOS" in the alert) it may receive.
MaxRec == 2
MaxTaps == 2

\* The screen after mount.  Recordings and timers are numbered from 1 and
\* 0 stands for null.
\*   isPreparing   isPreparingRef.current
\*   recordingRef  recordingRef.current
\*   stopTimerRef  stopTimerRef.current (the timer is named after the
\*                 recording it was set for)
\*   isListening   the isListening state
\*   shown         the isListening the rendered button was built with
\*   armed         the auto-stop timers that are set and have not fired
\*   live          the recordings that run: startAsync returned, no
\*                 stopAndUnloadAsync was called on them and no status
\*                 reported them done
\*   inflight      the calls of startVoiceMonitoring and stopVoiceMonitoring
\*                 that wait at an await
\*   taps          taps of the voice button and of the SOS buttons so far
\*   mounted       FALSE once the cleanup of the mount effect has run
\*   evidence      the calls of recordEvidenceAudio that wait at an await
\*   calls, skipped   calls of the two functions so far, and those that
\*                 returned at the isPreparingRef check
VoiceIdle ==
    [isPreparing |-> FALSE, recordingRef |-> 0, stopTimerRef |-> 0,
     isListening |-> FALSE, shown |-> FALSE, armed |-> {}, live |-> {},
     nextRec |-> 1, taps |-> 0, calls |-> 0, skipped |-> 0, inflight |-> {},
     mounted |-> TRUE, evidence |-> {}, prepared |-> {}, loaded |-> {}, alerts |-> 0,
     firstAlerts |-> 0]

\* A call in flight is c: its function (op), the await it waits at (pc),
\* the recording it works on (rec) and, for a stop, whether it got a URI.
Replace(v, c, d) == [v EXCEPT !.inflight = (@ \ {c}) \cup {d}]

\* A call moves on to its next await.
Await(v, c, pc) == Replace(v, c, [c EXCEPT !.pc = pc])

\* finally { setIsPreparing(false); isPreparingRef.current = false; }
Finally(v, c) == [v EXCEPT !.inflight = @ \ {c}, !.isPreparing = FALSE]

\* The catch block of either function, followed by its finally.
CatchOuter(v, c) == Finally([v EXCEPT !.recordingRef = 0, !.isListening = FALSE], c)

\* Variant: startVoiceMonitoring without the test of isPreparingRef.
StartCallIgnoresFlag(v) ==
    LET c == [id |-> v.calls + 1, op |-> "start", rec |-> v.recordingRef, uri |-> FALSE,
              ok |-> FALSE, first |-> FALSE,
              pc |-> IF v.recordingRef # 0 THEN "oldStatus" ELSE "permission"]
    IN  [v EXCEPT !.calls = @ + 1, !.isPreparing = TRUE, !.inflight = @ \cup {c}]

\* startVoiceMonitoring up to its first await: it returns at once while
\* isPreparingRef is set; otherwise it sets the flag and asks for the status
\* of the recording it still holds or, holding none, for the permission.
StartCall(v) ==
    IF v.isPreparing
    THEN [v EXCEPT !.calls = @ + 1, !.skipped = @ + 1]
    ELSE LET c == [id |-> v.calls + 1, op |-> "start", rec |-> v.recordingRef, uri |-> FALSE,
                   ok |-> FALSE, first |-> FALSE,
                   pc |-> IF v.recordingRef # 0 THEN "oldStatus" ELSE "permission"]
         IN  [v EXCEPT !.calls = @ + 1, !.isPreparing = TRUE, !.inflight = @ \cup {c}]

\* stopVoiceMonitoring up to its first await: it returns at once while
\* isPreparingRef is set; otherwise it clears the auto-stop timer and, with
\* no recording held, returns through finally; with one, it reads the URI
\* (uri is FALSE when getURI throws or yields nothing) and asks for the
\* status of the recording.  first tells that the function called is the
\* one the first render made.
StopCall(v, uri, first) ==
    IF v.isPreparing
    THEN [v EXCEPT !.calls = @ + 1, !.skipped = @ + 1]
    ELSE LET v1 == [v EXCEPT !.calls = @ + 1, !.armed = @ \ {v.stopTimerRef},
                             !.stopTimerRef = 0]
             c == [id |-> v.calls + 1, op |-> "stop", rec |-> v.recordingRef, uri |-> uri,
                   ok |-> FALSE, first |-> first, pc |-> "status"]
         IN  IF v.recordingRef = 0
             THEN [v1 EXCEPT !.isListening = FALSE, !.isPreparing = FALSE]
             ELSE [v1 EXCEPT !.isPreparing = TRUE, !.inflight = @ \cup {c}]

VoiceRest ==
    UNCHANGED <<zoneStore, users, fcmReady, emergencies, sendLog, nextId, sosCount, sos,
                asr, variant, parked, leg, dcall, pro>>

\* React renders the screen again after a state change: the button is
\* rebuilt with the current isListening.
VoiceRender ==
    /\ voice.mounted
    /\ voice.shown # voice.isListening
    /\ voice' = [voice EXCEPT !.shown = voice.isListening]
    /\ VoiceRest

\* onPress={isListening ? stopVoiceMonitoring : startVoiceMonitoring}
TapVoiceButton ==
    /\ voice.mounted
    /\ voice.taps < MaxTaps
    /\ LET v == [voice EXCEPT !.taps = @ + 1]
       IN  IF voice.shown
           THEN \E uri \in BOOLEAN : voice' = StopCall(v, uri, FALSE)
           ELSE voice' = StartCall(v)
    /\ VoiceRest

\* The 5-second timer set by startVoiceMonitoring fires and calls
\* stopVoiceMonitoring.
AutoStopTimerFires ==
    /\ \E t \in voice.armed, uri \in BOOLEAN :
          voice' = StopCall([voice EXCEPT !.armed = @ \ {t}], uri, FALSE)
    /\ VoiceRest

\* The screen unmounts: the cleanup of the mount effect clears the timer
\* stopTimerRef holds, without resetting the ref, and calls
\* stopVoiceMonitoring.  The effect has no dependencies, so the cleanup and
\* the function it calls are those of the first render.  Calls in flight
\* go on, and so do the timers they set afterwards.
VoiceUnmount ==
    /\ voice.mounted
    /\ \E uri \in BOOLEAN :
          voice' = StopCall([voice EXCEPT !.mounted = FALSE,
                                          !.armed = @ \ {voice.stopTimerRef}], uri, TRUE)
    /\ VoiceRest

\* recordingRef.current = null; setRecording(null): the screen gives up
\* the recording it holds, whatever became of it.
Released(v) == [v EXCEPT !.recordingRef = 0]

\* expo-av holds one recorder.  prepared is the set of Recording objects
\* that were prepared and not unloaded since, loaded the one whose recorder
\* is held, live the one whose recorder runs.

\* prepareToRecordAsync tests, when it is called, that no recorder exists
\* ("Only one Recording object can be prepared at a given time.").
CanPrepare(v) == v.loaded = {}

\* prepareToRecordAsync returns: the recorder is now that of rec.  (Of two
\* calls that passed the test together, the later one to return replaces
\* the recorder of the other.)
Prepared(v, rec) == [v EXCEPT !.prepared = @ \cup {rec}, !.loaded = {rec}, !.live = {}]

\* startAsync returns: the recorder runs.
Started(v) == [v EXCEPT !.live = v.loaded]

\* The recording of call c no longer runs: stopAndUnloadAsync was called on
\* it, or its status said that it is done.  The recorder is unloaded,
\* whether the stop resolves or rejects; on a Recording that is not
\* prepared the call only throws.
Ended(v, c) ==
    IF c.rec \in v.prepared
    THEN [v EXCEPT !.prepared = @ \ {c.rec}, !.loaded = {}, !.live = {}]
    ELSE v

\* start: getStatusAsync of the previous recording settles.  A recording
\* still active is stopped; one that is done leads to the 500 ms wait, and
\* so does an error, which is logged: the recording is then given up
\* without a stop.
StartOldStatusSettles ==
    /\ \E c \in voice.inflight, out \in {"active", "done", "throws"} :
          /\ c.op = "start" /\ c.pc = "oldStatus"
          /\ voice' = IF out = "active" /\ voice.recordingRef # 0
                      THEN Replace(voice, c, [c EXCEPT !.rec = voice.recordingRef,
                                                       !.pc = "oldStop"])
                      ELSE IF out = "done"
                      THEN Await(Released(Ended(voice, c)), c, "delay")
                      ELSE Await(Released(voice), c, "delay")
    /\ VoiceRest

\* start: stopAndUnloadAsync of the previous recording settles; a throw is
\* logged and the function continues as after a return.
StartOldStopSettles ==
    /\ \E c \in voice.inflight :
          /\ c.op = "start" /\ c.pc = "oldStop"
          /\ voice' = Await(Released(Ended(voice, c)), c, "delay")
    /\ VoiceRest

\* start: the 500 ms wait ends and the permission is asked for.
StartDelayElapses ==
    /\ \E c \in voice.inflight :
          /\ c.op = "start" /\ c.pc = "delay"
          /\ voice' = Await(voice, c, "permission")
    /\ VoiceRest

\* start: Audio.requestPermissionsAsync settles.  Without the permission
\* the function returns early, through finally.
StartPermissionSettles ==
    /\ \E c \in voice.inflight, out \in {"granted", "denied", "throws"} :
          /\ c.op = "start" /\ c.pc = "permission"
          /\ voice' = CASE out = "granted" -> Await(voice, c, "audioMode")
                        [] out = "denied" -> Finally([voice EXCEPT !.isListening = FALSE], c)
                        [] OTHER -> CatchOuter(voice, c)
    /\ VoiceRest

\* start: Audio.setAudioModeAsync settles; after a return the function
\* creates the new Recording and prepares it.
StartAudioModeSettles ==
    /\ \E c \in voice.inflight, out \in {"returns", "throws"} :
          /\ c.op = "start" /\ c.pc = "audioMode"
          /\ out = "returns" => voice.nextRec <= MaxRec
          /\ voice' = IF out = "returns"
                      THEN Replace([voice EXCEPT !.nextRec = @ + 1], c,
                                   [c EXCEPT !.rec = voice.nextRec, !.pc = "prepare",
                                             !.ok = CanPrepare(voice)])
                      ELSE CatchOuter(voice, c)
    /\ VoiceRest

\* start: prepareToRecordAsync settles; it returns only if it was called
\* while no recorder existed.
StartPrepareSettles ==
    /\ \E c \in voice.inflight, out \in {"returns", "throws"} :
          /\ c.op = "start" /\ c.pc = "prepare"
          /\ out = "returns" => c.ok
          /\ voice' = IF out = "returns" THEN Await(Prepared(voice, c.rec), c, "start")
                      ELSE CatchOuter(voice, c)
    /\ VoiceRest

\* start: startAsync settles; it returns only while a recorder is held.
\* After a return the recording is stored, the screen listens and the
\* auto-stop timer is set; then finally.
StartStartSettles ==
    /\ \E c \in voice.inflight, out \in {"returns", "throws"} :
          /\ c.op = "start" /\ c.pc = "start"
          /\ out = "returns" => voice.loaded # {}
          /\ voice' = IF out = "returns"
                      THEN Finally([Started(voice) EXCEPT !.recordingRef = c.rec,
                                                 !.isListening = TRUE,
                                                 !.stopTimerRef = c.rec,
                                                 !.armed = @ \cup {c.rec}], c)
                      ELSE CatchOuter(voice, c)
    /\ VoiceRest

\* After the inner try of stopVoiceMonitoring: the recording is given up,
\* the screen no longer listens, and the function waits 200 ms.
AfterStop(v, c) == Await([Released(v) EXCEPT !.isListening = FALSE], c, "delay")

\* stop: getStatusAsync settles.  A recording still active is stopped; one
\* that is done leads past the stop, and so does an error, which is
\* logged: the recording is then given up without a stop.
StopStatusSettles ==
    /\ \E c \in voice.inflight, out \in {"active", "done", "throws"} :
          /\ c.op = "stop" /\ c.pc = "status"
          /\ voice' = CASE out = "active" -> Await(voice, c, "stop")
                        [] out = "done" -> AfterStop(Ended(voice, c), c)
                        [] OTHER -> AfterStop(voice, c)
    /\ VoiceRest

\* stop: stopAndUnloadAsync settles; a throw is logged and the function
\* continues as after a return.
StopStopSettles ==
    /\ \E c \in voice.inflight :
          /\ c.op = "stop" /\ c.pc = "stop"
          /\ voice' = AfterStop(Ended(voice, c), c)
    /\ VoiceRest

\* stop: the 200 ms wait ends; with a URI the file is looked up, without
\* one the function ends.
StopDelayElapses ==
    /\ \E c \in voice.inflight :
          /\ c.op = "stop" /\ c.pc = "delay"
          /\ voice' = IF c.uri THEN Await(voice, c, "info") ELSE Finally(voice, c)
    /\ VoiceRest

\* stop: FileSystem.getInfoAsync settles; only a file that exists and is
\* not empty is analysed.
StopInfoSettles ==
    /\ \E c \in voice.inflight, out \in {"valid", "empty", "throws"} :
          /\ c.op = "stop" /\ c.pc = "info"
          /\ voice' = IF out = "valid" THEN Await(voice, c, "analyze")
                      ELSE Finally(voice, c)
    /\ VoiceRest

\* stop: analyzeVoiceForDanger settles, and the function ends.  When the
\* analysis found danger it has opened the alert that offers "Cancel" and
\* "Send SOS"; any other result, and an error, which is caught, leave no
\* alert with a handler.  The handler of "Send SOS" calls the
\* sendEmergencySOS of the render that made the stop.
StopAnalyzeSettles ==
    /\ \E c \in voice.inflight, out \in {"danger", "other"} :
          /\ c.op = "stop" /\ c.pc = "analyze"
          /\ voice' = Finally([voice EXCEPT
                                  !.alerts = IF out = "danger" THEN @ + 1 ELSE @,
                                  !.firstAlerts = IF out = "danger" /\ c.first THEN @ + 1 ELSE @],
                               c)
    /\ VoiceRest

\* An evidence call moves on, or ends.
EvidenceAwait(v, e, pc) == [v EXCEPT !.evidence = (@ \ {e}) \cup {[e EXCEPT !.pc = pc]}]
EvidenceReturn(v, e) == [v EXCEPT !.evidence = @ \ {e}]

\* sendEmergencySOS or sendDiscreetSOS with a location known: it calls
\* recordEvidenceAudio, which asks for the permission.  It looks at neither
\* isPreparingRef nor recordingRef.  (What the two do with the clip
\* afterwards is not part of the recording state.)
SendSos(v) ==
    [v EXCEPT !.taps = @ + 1,
              !.evidence = @ \cup {[id |-> v.taps + 1, rec |-> 0, ok |-> FALSE,
                                    pc |-> "permission"]}]

\* The SOS button of the screen is pressed, or the discreet tile is
\* long-pressed.
PressSos ==
    /\ voice.mounted
    /\ voice.taps < MaxTaps
    /\ voice' = SendSos(voice)
    /\ VoiceRest

\* The user answers a danger alert; the alert belongs to the system and
\* outlives the screen.  "Send SOS" calls sendEmergencySOS.  In that of
\* the first render location is null (useState(null)): it asks for the
\* location services and returns, and no evidence is recorded.
AlertAnswered ==
    /\ \E first \in BOOLEAN, choice \in {"cancel", "send"} :
          /\ IF first THEN voice.firstAlerts > 0
                      ELSE voice.alerts > voice.firstAlerts
          /\ choice = "send" => voice.taps < MaxTaps
          /\ LET v == [voice EXCEPT !.alerts = @ - 1,
                                    !.firstAlerts = IF first THEN @ - 1 ELSE @]
             IN  voice' = CASE choice = "cancel" -> v
                            [] first -> [v EXCEPT !.taps = @ + 1]
                            [] OTHER -> SendSos(v)
    /\ VoiceRest

\* evidence: Audio.requestPermissionsAsync settles; with the permission a
\* new Recording is created and prepared, without it (or on an error) the
\* function returns null.
EvidencePermissionSettles ==
    /\ \E e \in voice.evidence, out \in {"granted", "denied", "throws"} :
          /\ e.pc = "permission"
          /\ out = "granted" => voice.nextRec <= MaxRec
          /\ voice' = IF out = "granted"
                      THEN [voice EXCEPT !.nextRec = @ + 1,
                               !.evidence = (@ \ {e}) \cup
                                   {[e EXCEPT !.rec = voice.nextRec, !.pc = "prepare",
                                              !.ok = CanPrepare(voice)]}]
                      ELSE EvidenceReturn(voice, e)
    /\ VoiceRest

\* evidence: prepareToRecordAsync settles; it returns only if it was
\* called while no recorder existed.
EvidencePrepareSettles ==
    /\ \E e \in voice.evidence, out \in {"returns", "throws"} :
          /\ e.pc = "prepare"
          /\ out = "returns" => e.ok
          /\ voice' = IF out = "returns"
                      THEN EvidenceAwait(Prepared(voice, e.rec), e, "start")
                      ELSE EvidenceReturn(voice, e)
    /\ VoiceRest

\* evidence: startAsync settles; it returns only while a recorder is
\* held, and the recording then runs for 8 seconds.
EvidenceStartSettles ==
    /\ \E e \in voice.evidence, out \in {"returns", "throws"} :
          /\ e.pc = "start"
          /\ out = "returns" => voice.loaded # {}
          /\ voice' = IF out = "returns"
                      THEN EvidenceAwait(Started(voice), e, "wait")
                      ELSE EvidenceReturn(voice, e)
    /\ VoiceRest

\* evidence: the 8 seconds are over and stopAndUnloadAsync is called.
EvidenceWaitElapses ==
    /\ \E e \in voice.evidence :
          /\ e.pc = "wait"
          /\ voice' = EvidenceAwait(voice, e, "stop")
    /\ VoiceRest

\* evidence: stopAndUnloadAsync settles and the function returns the URI,
\* or null after a throw.
EvidenceStopSettles ==
    /\ \E e \in voice.evidence :
          /\ e.pc = "stop"
          /\ voice' = EvidenceReturn(Ended(voice, e), e)
    /\ VoiceRest

---------------------------------------------------------------------------
(* Specifications *)

InitCommon ==
    /\ users = UserDocs
    /\ emergencies = <<>>
    /\ sendLog = <<>>
    /\ nextId = 1
    /\ sosCount = 0
    /\ sos = SosIdle
    /\ parked = SosIdle
    /\ leg = LegacyIdle
    /\ asr = AssessIdle
    /\ dcall = DistIdle
    /\ voice = VoiceIdle
    /\ pro = ProfileIdle

\* The SOS pipeline.
Init ==
    /\ zoneStore = <<>>
    /\ fcmReady \in BOOLEAN
    /\ variant \in Variants
    /\ InitCommon

Next ==
    \/ \E inp \in SosInputs : SosReceive(inp[1], inp[2])
    \/ SosFindUserResolves
    \/ SosFindUserRejects
    \/ SosSaveResolves
    \/ SosSaveRejects
    \/ SosSendResolves
    \/ SosSendRejects

Spec == Init /\ [][Next]_vars

\* The assess pipeline over every zone collection of at most MaxZones zones.
InitAssess ==
    /\ \E n \in 0..MaxZones : \E fs \in [1..n -> ZoneFields] : zoneStore = ZoneStore(fs, n)
    /\ fcmReady = FALSE
    /\ variant = "v2"
    /\ InitCommon

NextAssess ==
    \/ \E inp \in AssessInputs : AssessReceive(inp[1], inp[2][1], inp[2][2])
    \/ AssessFindResolves
    \/ AssessFindRejects

SpecAssess == InitAssess /\ [][NextAssess]_vars

\* Two SOS requests in flight at once.
NextConc ==
    \/ \E inp \in ConcInputs : SosReceive(inp[1], inp[2])
    \/ SosFindUserResolves
    \/ SosFindUserRejects
    \/ SosSaveResolves
    \/ SosSaveRejects
    \/ SosSendResolves
    \/ SosSendRejects
    \/ Switch

SpecConc == Init /\ [][NextConc]_vars

\* The three endpoints together, over an empty zone collection and over a
\* collection of one active zone.
InitAll ==
    /\ \E n \in 0..1 :
          zoneStore = ZoneStore([i \in 1..n |->
                                    [center |-> [lat |-> Num(0), lng |-> Num(0)],
                                     radiusMeters |-> 33359,
                                     riskLevel |-> "DANGER", active |-> TRUE]], n)
    /\ fcmReady \in BOOLEAN
    /\ variant \in Variants
    /\ InitCommon

NextAll ==
    \/ \E inp \in AllSosInputs : SosReceive(inp[1], inp[2])
    \/ SosFindUserResolves
    \/ SosFindUserRejects
    \/ SosSaveResolves
    \/ SosSaveRejects
    \/ SosSendResolves
    \/ SosSendRejects
    \/ \E inp \in LegacyInputs : LegacyReceive(inp[1], inp[2], inp[3], inp[4])
    \/ LegacySaveResolves
    \/ LegacySaveRejects
    \/ \E inp \in AllAssessInputs : AssessReceive(inp[1], inp[2][1], inp[2][2])
    \/ AssessFindResolves
    \/ AssessFindRejects
    \/ \E inp \in ProfileInputs : ProfileReceive(inp[1], inp[2], inp[3], inp[4])
    \/ ProfileFindResolves
    \/ ProfileFindRejects
    \/ ProfileHashSettles
    \/ ProfileCompareSettles
    \/ ProfileSaveResolves
    \/ ProfileSaveRejects
    \/ ProfileReloadSettles
    \/ ProfileSignSettles

SpecAll == InitAll /\ [][NextAll]_vars

\* distanceInMeters on its own, on every pair of DistPoints.
InitDist ==
    /\ zoneStore = <<>>
    /\ fcmReady = FALSE
    /\ variant = "v2"
    /\ users = UserDocs
    /\ emergencies = <<>>
    /\ sendLog = <<>>
    /\ nextId = 1
    /\ sosCount = 0
    /\ sos = SosIdle
    /\ parked = SosIdle
    /\ leg = LegacyIdle
    /\ asr = AssessIdle
    /\ voice = VoiceIdle
    /\ pro = ProfileIdle
    /\ \E a \in DistPoints, b \in DistPoints : dcall = [DistIdle EXCEPT !.pc = "call", !.a = a, !.b = b]

NextDist == DistanceApply

SpecDist == InitDist /\ [][NextDist]_vars

\* The voice button and the SOS buttons of the mobile HomeScreen.
InitVoice ==
    /\ zoneStore = <<>>
    /\ fcmReady = FALSE
    /\ variant = "v2"
    /\ InitCommon

NextVoice ==
    \/ VoiceRender
    \/ TapVoiceButton
    \/ AutoStopTimerFires
    \/ StartOldStatusSettles
    \/ StartOldStopSettles
    \/ StartDelayElapses
    \/ StartPermissionSettles
    \/ StartAudioModeSettles
    \/ StartPrepareSettles
    \/ StartStartSettles
    \/ StopStatusSettles
    \/ StopStopSettles
    \/ StopDelayElapses
    \/ StopInfoSettles
    \/ StopAnalyzeSettles
    \/ VoiceUnmount
    \/ PressSos
    \/ AlertAnswered
    \/ EvidencePermissionSettles
    \/ EvidencePrepareSettles
    \/ EvidenceStartSettles
    \/ EvidenceWaitElapses
    \/ EvidenceStopSettles

SpecVoice == InitVoice /\ [][NextVoice]_vars

\* The SOS pipeline with the progress the server can count on: a pending
\* database call (User.findById, save) settles.  Nothing makes a pending
\* admin.messaging().send settle, and nothing makes a request arrive.
SpecFair ==
    /\ Spec
    /\ WF_vars(SosFindUserResolves \/ SosFindUserRejects)
    /\ WF_vars(SosSaveResolves \/ SosSaveRejects)

---------------------------------------------------------------------------
(* Vocabulary of the properties *)

Severity(level) == CASE level = "DANGER" -> 2 [] level = "CAUTION" -> 1 [] OTHER -> 0

\* latitude in [-90, 90] and longitude in [-180, 180], both finite numbers
ValidCoordinate(latitude, longitude) ==
    /\ IsFinite(latitude) /\ -90000000 <= latitude.v /\ latitude.v <= 90000000
    /\ IsFinite(longitude) /\ -180000000 <= longitude.v /\ longitude.v <= 180000000

\* the assess request has been answered 200
Assessed == asr.pc = "done" /\ asr.status = 200

\* distance from the point of the assess request to zone z
DistanceTo(z) == distanceInMeters(asr.latitude, asr.longitude, z.center.lat, z.center.lng)

\* indices of the evaluated zones whose distance to the point is <= radius
Containing ==
    {i \in 1..Len(asr.zones) : Lte(DistanceTo(asr.zones[i]), Num(asr.zones[i].radiusMeters))}

\* ids of the zones reported in activeZones
MatchedIds == {asr.body.activeZones[k].id : k \in 1..Len(asr.body.activeZones)}

---------------------------------------------------------------------------
(* Properties of POST /api/location/assess, checked under SpecAssess *)

\* C1: the riskLevel of a 200 response is the highest severity
\* (DANGER > CAUTION > SAFE) among the evaluated zones whose distance to the
\* point is <= their radius, and SAFE when no zone contains the point.
C1_RiskIsMaxSeverity ==
    Assessed =>
        /\ Containing = {} => asr.body.riskLevel = "SAFE"
        /\ Containing # {} =>
              /\ \E i \in Containing : asr.zones[i].riskLevel = asr.body.riskLevel
              /\ \A i \in Containing :
                    Severity(asr.zones[i].riskLevel) <= Severity(asr.body.riskLevel)

\* A CAUTION zone closer than a DANGER zone, both containing the point, and
\* the verdict is DANGER.
C1_Witness ==
    /\ Assessed
    /\ asr.body.riskLevel = "DANGER"
    /\ \E i, j \in Containing :
          /\ asr.zones[i].riskLevel = "CAUTION"
          /\ asr.zones[j].riskLevel = "DANGER"
          /\ Lt(DistanceTo(asr.zones[i]), DistanceTo(asr.zones[j]))

\* C10: containment is boundary-inclusive: an evaluated zone whose distance
\* equals its radius is among the matched zones and its riskLevel counts in
\* the verdict; a zone farther than its radius is not matched.
C10_BoundaryInclusive ==
    Assessed =>
        \A i \in 1..Len(asr.zones) :
            LET z == asr.zones[i]
                d == DistanceTo(z)
            IN  /\ (IsFinite(d) /\ d.v = z.radiusMeters) =>
                      /\ z._id \in MatchedIds
                      /\ Severity(z.riskLevel) <= Severity(asr.body.riskLevel)
                /\ (IsFinite(d) /\ d.v > z.radiusMeters) => z._id \notin MatchedIds

\* A zone exactly at its radius decides a verdict other than SAFE, while
\* another evaluated zone lies beyond its own radius.
C10_Witness ==
    /\ Assessed
    /\ \E i, j \in 1..Len(asr.zones) :
          /\ DistanceTo(asr.zones[i]) = Num(asr.zones[i].radiusMeters)
          /\ asr.zones[i].radiusMeters > 0
          /\ asr.zones[i].riskLevel = asr.body.riskLevel
          /\ asr.body.riskLevel # "SAFE"
          /\ Len(asr.body.activeZones) = 1
          /\ Lt(Num(asr.zones[j].radiusMeters), DistanceTo(asr.zones[j]))

\* the zone collection holds no active zone
NoActiveZone == Len(FindActive(zoneStore)) = 0

\* C7: when the zone store returns no active zone, the request is answered
\* 200 after evaluating zero zones, with riskLevel SAFE.
C7_EmptyStoreEvaluatesNoZone ==
    (/\ asr.pc = "done" /\ asr.token \in TokenUsers /\ NoActiveZone
     /\ ValidCoordinate(asr.latitude, asr.longitude)) =>
        /\ asr.status \in {200, 500}
        /\ asr.status = 200 => (Len(asr.zones) = 0 /\ asr.body.riskLevel = "SAFE")

\* C8: with no active zone the 200 response has no matched zone and a null
\* nearestZone; a nearestZone that is not null is a zone of the collection.
C8_EmptyStoreNearestIsNull ==
    Assessed =>
        /\ NoActiveZone =>
              (Len(asr.body.activeZones) = 0 /\ Len(asr.body.nearestZone) = 0)
        /\ Len(asr.body.nearestZone) = 1 =>
              \E i \in 1..Len(zoneStore) :
                  zoneStore[i].active /\ zoneStore[i]._id = asr.body.nearestZone[1].id

\* index i is a first minimum of the distances over the evaluated zones
FirstMinimum(i) ==
    /\ \A j \in 1..Len(asr.zones) : Lte(DistanceTo(asr.zones[i]), DistanceTo(asr.zones[j]))
    /\ \A j \in 1..(i - 1) : Lt(DistanceTo(asr.zones[i]), DistanceTo(asr.zones[j]))

\* C9: for a non-empty list of active zones the nearestZone of a 200 response is
\* the zone at minimum distance over the whole list, the first such zone of
\* the list when several are at that distance.
C9_NearestIsFirstMinimum ==
    (Assessed /\ ~NoActiveZone) =>
        \E i \in 1..Len(asr.zones) :
            /\ FirstMinimum(i)
            /\ Len(asr.body.nearestZone) = 1
            /\ asr.body.nearestZone[1].id = asr.zones[i]._id
            /\ asr.body.nearestZone[1].distanceMeters = DistanceTo(asr.zones[i])

---------------------------------------------------------------------------
(* Properties of POST /api/emergency/sos, checked under Spec *)

\* the SOS request was answered 401 or 400
SosRejected == sos.pc = "done" /\ sos.status \in {400, 401}

\* the document built for the SOS request is in the collection
OwnRecordStored ==
    \E k \in 1..Len(emergencies) : emergencies[k] = sos.newEmergency[1]

\* no call to the messaging provider carries the id built for the request
NoSendForOwnRecord ==
    Len(sos.newEmergency) = 1 =>
        \A k \in 1..Len(sendLog) : sendLog[k].data.emergencyId # sos.newEmergency[1]._id

\* C2: an authenticated request whose latitude is outside [-90, 90], whose
\* longitude is outside [-180, 180] or whose coordinate is not a finite
\* number is answered 400 before any zone evaluation, record creation or
\* notification.
C2_InvalidCoordinateRejected ==
    /\ (/\ sos.pc # "idle" /\ AuthPasses(sos.token)
        /\ ~ValidCoordinate(sos.body.latitude, sos.body.longitude)) =>
           (sos.pc = "done" /\ sos.status = 400 /\ Len(sos.newEmergency) = 0)
    /\ (/\ asr.pc # "idle" /\ AuthPasses(asr.token)
        /\ ~ValidCoordinate(asr.latitude, asr.longitude)) =>
           (asr.pc = "done" /\ asr.status = 400 /\ Len(asr.zones) = 0)

\* C3: a request answered 401 or 400 has no side effect: it built no
\* document and called the messaging provider zero times, and the step that
\* rejects it, like every step while it stays rejected, leaves the Emergency
\* collection and the calls to the provider as they were.
C3_RejectionHasNoSideEffect ==
    /\ [](SosRejected => (Len(sos.newEmergency) = 0 /\ sos.sendCalls = 0))
    /\ [][SosRejected' => (emergencies' = emergencies /\ sendLog' = sendLog)]_vars

\* A request is rejected with 400 while the collection holds a record and
\* the provider was called for an earlier request.
C3_Witness ==
    /\ SosRejected /\ sos.status = 400
    /\ Len(emergencies) = 1 /\ Len(sendLog) = 1

\* C4: when save() fails the response is 500, the document is not in the
\* collection and the messaging provider is not called for the request.
C4_SaveFailureNoNotification ==
    sos.saved = "rejected" =>
        /\ sos.pc = "done" /\ sos.status = 500
        /\ sos.sendCalls = 0
        /\ NoSendForOwnRecord
        /\ ~OwnRecordStored

\* save() fails for a user with a push token while Firebase is initialised.
C4_Witness ==
    /\ sos.saved = "rejected"
    /\ ShouldPush(sos.user, fcmReady)

\* C5: once the document is saved the response is 200 whether send()
\* resolved, rejected or was skipped, and the saved documents stay in the
\* collection unchanged.
C5_SavedAlwaysSucceeds ==
    /\ [](sos.saved = "ok" =>
            /\ OwnRecordStored
            /\ sos.pc \in {"send", "done"}
            /\ sos.pc = "done" =>
                  (sos.status = 200 /\ sos.pushLog \in {"sent", "failed", "skipped"}))
    /\ [][/\ Len(emergencies') >= Len(emergencies)
          /\ \A k \in 1..Len(emergencies) : emergencies'[k] = emergencies[k]]_vars

\* send() rejected and the response is 200 with the record stored.
C5_Witness ==
    /\ sos.pc = "done" /\ sos.saved = "ok" /\ sos.pushLog = "failed"
    /\ sos.status = 200 /\ OwnRecordStored

\* C6, checked under SpecFair: once the document is saved the request is
\* eventually answered, even if the messaging provider never completes.
C6_SavedLeadsToResponse ==
    (sos.saved = "ok" /\ sos.pc # "done") ~> (sos.pc = "done")

---------------------------------------------------------------------------
(* The notification of an SOS request, checked under Spec *)

\* the user loaded for the SOS request has a push token
HasPushToken == Len(sos.user) = 1 /\ ~Falsy(sos.user[1].pushToken)

\* the SOS request has loaded its user and built its document
UserLoaded == sos.pc \in {"save", "send", "done"} /\ Len(sos.newEmergency) = 1

\* C11: an SOS request from a user with no push token is recorded under a
\* valid id of its own, the messaging provider is never called for it (the
\* push is skipped, which is not an error), and the response is 200 with
\* that id.
C11_NoTokenSkipsPush ==
    (UserLoaded /\ ~HasPushToken) =>
        /\ sos.sendCalls = 0 /\ sos.pc # "send" /\ NoSendForOwnRecord
        /\ sos.saved = "ok" =>
              /\ sos.pc = "done" /\ sos.status = 200 /\ sos.pushLog = "skipped"
              /\ OwnRecordStored
              /\ sos.newEmergency[1]._id >= 1
              /\ Len(sos.data) = 1 /\ sos.data[1].id = sos.newEmergency[1]._id

\* A user without push token is answered 200 while Firebase is initialised
\* and the provider was called for an earlier request.
C11_Witness ==
    /\ sos.pc = "done" /\ sos.token = "u2" /\ ~HasPushToken /\ fcmReady
    /\ sos.status = 200 /\ sos.pushLog = "skipped" /\ OwnRecordStored
    /\ Len(sendLog) = 1


\* send() was called once for the SOS request, with a message composed for
\* its user, its document and its coordinates
SendAttempted ==
    /\ sos.sendCalls = 1
    /\ \E k \in 1..Len(sendLog) :
          /\ sendLog[k].token = sos.user[1].pushToken[1]
          /\ sendLog[k].data.emergencyId = sos.newEmergency[1]._id
          /\ sendLog[k].data.latitude = sos.body.latitude
          /\ sendLog[k].data.longitude = sos.body.longitude
          /\ sendLog[k].body.name = sos.user[1].name

\* C12: for every recorded SOS whose user has a push token a notification
\* is composed and a send is attempted.
C12_TokenImpliesSend ==
    (sos.saved = "ok" /\ HasPushToken) => SendAttempted

\* what holds instead: the send is attempted when Firebase Admin is
\* initialised, and skipped when it is not
SendFollowsFirebase ==
    (sos.saved = "ok" /\ HasPushToken) =>
        /\ fcmReady => SendAttempted
        /\ ~fcmReady => (sos.sendCalls = 0 /\ NoSendForOwnRecord /\ sos.pushLog = "skipped")

\* number of calls to send() that carry emergency id
SendsFor(id) == Cardinality({k \in 1..Len(sendLog) : sendLog[k].data.emergencyId = id})

\* C13: delivery is at most once per SOS request: send() is called zero or
\* one time for a request, every record has at most one send, and a send
\* that failed is not retried: the step in which send() rejects, like the
\* request once answered, makes no further call.
C13_AtMostOneSend ==
    /\ [](/\ sos.sendCalls <= 1
          /\ \A k \in 1..Len(emergencies) : SendsFor(emergencies[k]._id) <= 1
          /\ Len(sos.newEmergency) = 1 =>
                SendsFor(sos.newEmergency[1]._id) = sos.sendCalls)
    /\ [][(sos.pc = "send" \/ sos'.pushLog = "failed") =>
             (sendLog' = sendLog /\ sos'.sendCalls = sos.sendCalls)]_vars
    /\ [][Len(sendLog') <= Len(sendLog) + 1]_vars

\* send() rejected for the second of two requests of the same user: two
\* records, one call each.
C13_Witness ==
    /\ sos.pc = "done" /\ sos.pushLog = "failed" /\ sos.sendCalls = 1
    /\ Len(emergencies) = 2 /\ Len(sendLog) = 2
    /\ SendsFor(sos.newEmergency[1]._id) = 1


---------------------------------------------------------------------------
(* The Emergency collection, checked under Spec *)

\* the fields of a record that come from the request
Content(e) == [user |-> e.user, location |-> e.location, evidenceUrl |-> e.evidenceUrl]

\* C14: the same valid SOS input submitted twice creates two persisted
\* records with two distinct ids: every save() that resolves adds one record
\* whatever the collection already holds, and no two records share an id.
C14_NoDeduplication ==
    /\ [](\A j, k \in 1..Len(emergencies) :
             j # k => emergencies[j]._id # emergencies[k]._id)
    /\ [][(sos.pc = "save" /\ sos'.saved = "ok") =>
             /\ Len(emergencies') = Len(emergencies) + 1
             /\ emergencies'[Len(emergencies')] = sos.newEmergency[1]
             /\ \A k \in 1..Len(emergencies) :
                   emergencies[k]._id # sos.newEmergency[1]._id]_vars

\* The same input was submitted twice by the same user and the collection
\* holds two records equal in everything but their id.
C14_Witness ==
    /\ Len(emergencies) = 2
    /\ Content(emergencies[1]) = Content(emergencies[2])
    /\ emergencies[1]._id # emergencies[2]._id
    /\ ValidCoordinate(emergencies[1].location.lat, emergencies[1].location.lng)
    /\ sos.pc = "done" /\ sos.status = 200


\* C17: when an SOS request that carries an evidenceUrl is answered 200, the
\* persisted record and the data of the response contain that same value.
C17_EvidenceUrlStoredAndReturned ==
    (sos.pc = "done" /\ sos.status = 200 /\ ~Falsy(sos.body.evidenceUrl)) =>
        /\ \E k \in 1..Len(emergencies) :
              /\ emergencies[k]._id = sos.data[1].id
              /\ emergencies[k].evidenceUrl = sos.body.evidenceUrl
        /\ "evidenceUrl" \in DOMAIN sos.data[1]
        /\ sos.data[1].evidenceUrl = sos.body.evidenceUrl


---------------------------------------------------------------------------
(* The three endpoints together, checked under SpecAll *)

\* C15: the Emergency collection is append-only: whatever the request and
\* the endpoint, a step adds at most one record at the end and leaves every
\* record saved before in place and unchanged; a step in which send()
\* fails and a step of the assess endpoint add nothing.
C15_AppendOnly ==
    /\ [][/\ Len(emergencies') \in {Len(emergencies), Len(emergencies) + 1}
          /\ SubSeq(emergencies', 1, Len(emergencies)) = emergencies]_vars
    /\ [][((sos.pc = "send" /\ sos'.pushLog = "failed") \/ asr' # asr) =>
             emergencies' = emergencies]_vars

\* A record of the old endpoint and a record of an SOS whose send() failed
\* are both in the collection, after an assessment was answered.
C15_Witness ==
    /\ Len(emergencies) = 2
    /\ leg.pc = "done" /\ leg.status = 200 /\ emergencies[1] = leg.newEmergency[1]
    /\ sos.pc = "done" /\ sos.pushLog = "failed" /\ emergencies[2] = sos.newEmergency[1]
    /\ Assessed


\* every successful SOS has added exactly one record
SosAddsOneRecord ==
    /\ [](sos.status = 200 =>
             Cardinality({k \in 1..Len(emergencies) :
                             emergencies[k]._id = sos.newEmergency[1]._id}) = 1)
    /\ [][(sos.pc = "save" /\ sos'.saved = "ok") =>
             emergencies' = Append(emergencies, sos.newEmergency[1])]_vars

\* C16: a record is created on every accepted request of either kind: each
\* successful SOS and each successful assess adds exactly one persisted
\* event.
C16_EveryAcceptedRequestRecorded ==
    /\ SosAddsOneRecord
    /\ [][(asr.pc = "find" /\ asr'.status = 200) =>
             Len(emergencies') = Len(emergencies) + 1]_vars


\* C20: no step of an SOS request or of an assess request changes a
\* document of the zone collection or of the user collection: both are only
\* read, also when the demo zone stands in for an empty collection and when
\* send() fails.
C20_ZonesAndUsersReadOnly ==
    [][(sos' # sos \/ asr' # asr) => (zoneStore' = zoneStore /\ users' = users)]_vars

\* An assessment over the empty collection was answered with the demo zone,
\* an SOS whose send() failed was answered 200, and both collections are as
\* they were at the start.
C20_Witness ==
    /\ Assessed /\ zoneStore = <<>> /\ Len(asr.zones) = 1
    /\ sos.pc = "done" /\ sos.status = 200 /\ sos.pushLog = "failed"
    /\ users = UserDocs


---------------------------------------------------------------------------
(* Two SOS requests in flight, checked under SpecConc *)

\* The document, the calls of send() and the response of request r are
\* those of its own token and body and of the user document read for it.
OwnOutcome(r) ==
    /\ Len(r.newEmergency) = 1 =>
          /\ r.newEmergency[1].user = r.token
          /\ r.newEmergency[1].location = [lat |-> r.body.latitude, lng |-> r.body.longitude]
          /\ r.newEmergency[1].evidenceUrl = OrNull(r.body.evidenceUrl)
          /\ r.user = <<users[r.token]>>
          /\ r.sendCalls = SendsFor(r.newEmergency[1]._id)
          /\ \A k \in 1..Len(sendLog) :
                sendLog[k].data.emergencyId = r.newEmergency[1]._id =>
                    /\ <<sendLog[k].token>> = users[r.token].pushToken
                    /\ sendLog[k].body.name = users[r.token].name
                    /\ sendLog[k].data.latitude = r.body.latitude
                    /\ sendLog[k].data.longitude = r.body.longitude
    /\ r.saved = "ok" =>
          Cardinality({k \in 1..Len(emergencies) : emergencies[k] = r.newEmergency[1]}) = 1
    /\ r.saved # "ok" =>
          \A k \in 1..Len(emergencies) :
              Len(r.newEmergency) = 1 => emergencies[k]._id # r.newEmergency[1]._id
    /\ r.status = 200 =>
          /\ r.saved = "ok"
          /\ r.data[1].id = r.newEmergency[1]._id
          /\ r.data[1].userId = r.token
          /\ r.data[1].latitude = r.body.latitude
          /\ r.data[1].longitude = r.body.longitude

InFlight(r) == r.pc \in {"findUser", "save", "send"}

\* C19: concurrent SOS requests are independent: the record and the
\* response of each request depend only on its own input and on the user
\* document read for it, each request has a record of its own, the step of
\* one request leaves the other request as it is, and the continuation of
\* a request is never held back by the other request.
C19_RequestsIndependent ==
    /\ [](OwnOutcome(sos) /\ OwnOutcome(parked))
    /\ []((Len(sos.newEmergency) = 1 /\ Len(parked.newEmergency) = 1) =>
             sos.newEmergency[1]._id # parked.newEmergency[1]._id)
    /\ [](/\ sos.pc = "findUser" => ENABLED SosFindUserResolves
          /\ sos.pc = "save" => ENABLED SosSaveResolves
          /\ sos.pc = "send" => ENABLED SosSendResolves
          /\ InFlight(parked) => ENABLED Switch)
    /\ [][parked' = parked \/ (parked' = sos /\ sos' = parked)]_vars

\* Two requests with different bodies from different users were in flight
\* together: the one that built its document second saved first, and both
\* were answered 200.
C19_Witness ==
    /\ sos.pc = "done" /\ sos.status = 200
    /\ parked.pc = "done" /\ parked.status = 200
    /\ sos.token # parked.token /\ sos.body # parked.body
    /\ Len(emergencies) = 2
    /\ emergencies[1]._id = 2 /\ emergencies[2]._id = 1


\* Requests r1 and r2 are answered, come from the same user with bodies
\* that differ only in mode, and their database calls ended the same way.
DifferOnlyInMode(r1, r2) ==
    /\ r1.pc = "done" /\ r2.pc = "done"
    /\ r1.token = r2.token
    /\ r1.body.mode # r2.body.mode
    /\ [r1.body EXCEPT !.mode = <<>>] = [r2.body EXCEPT !.mode = <<>>]
    /\ Len(r1.newEmergency) = Len(r2.newEmergency)
    /\ r1.saved = r2.saved

\* the call of send() made for request r, if any
MessagesOf(r) ==
    {sendLog[k] : k \in {j \in 1..Len(sendLog) :
                            /\ Len(r.newEmergency) = 1
                            /\ sendLog[j].data.emergencyId = r.newEmergency[1]._id}}

\* every field of record f but those named in except
Without(f, except) == [x \in DOMAIN f \ except |-> f[x]]

\* Messages m1 and m2 have the same shape and differ at most in the text of
\* title and body, in the mode carried and in the id of the record.
SameShape(m1, m2) ==
    /\ DOMAIN m1 = DOMAIN m2
    /\ m1.token = m2.token
    /\ DOMAIN m1.body = DOMAIN m2.body
    /\ DOMAIN m1.data = DOMAIN m2.data
    /\ Without(m1.data, {"mode", "emergencyId"}) = Without(m2.data, {"mode", "emergencyId"})

\* C18: two SOS requests that differ only in mode behave alike: the same
\* record but for its id, the same status, the same decision to notify and
\* the same notification shape; only the title and body text and the mode
\* carried differ.
C18_ModeChangesOnlyText ==
    DifferOnlyInMode(sos, parked) =>
        /\ sos.status = parked.status
        /\ Len(sos.newEmergency) = 1 =>
              Content(sos.newEmergency[1]) = Content(parked.newEmergency[1])
        /\ sos.sendCalls = parked.sendCalls
        /\ (sos.pushLog = "skipped") = (parked.pushLog = "skipped")
        /\ \A m1 \in MessagesOf(sos), m2 \in MessagesOf(parked) : SameShape(m1, m2)
        /\ sos.status = 200 =>
              /\ DOMAIN sos.data[1] = DOMAIN parked.data[1]
              /\ Without(sos.data[1], {"mode", "id"}) = Without(parked.data[1], {"mode", "id"})

\* A discreet and a normal request of the same user, both saved, both
\* pushed and both answered 200, on the copy of the route that reads mode:
\* the two messages differ in their title.
C18_Witness ==
    /\ DifferOnlyInMode(sos, parked)
    /\ variant = "v2"
    /\ sos.body.mode = <<"DISCREET">>
    /\ sos.status = 200 /\ parked.status = 200
    /\ sos.sendCalls = 1 /\ parked.sendCalls = 1
    /\ \E m1 \in MessagesOf(sos), m2 \in MessagesOf(parked) : m1.title # m2.title


---------------------------------------------------------------------------
(* distanceInMeters on its own, checked under SpecDist *)

\* C21: for every coordinate a and b, distanceInMeters(a, a) = 0,
\* distanceInMeters(a, b) = distanceInMeters(b, a) and
\* distanceInMeters(a, b) >= 0 (comparisons as JavaScript makes them: NaN
\* is equal to nothing and >= nothing).
C21_DistanceIsZeroSymmetricNonNegative ==
    dcall.pc = "done" =>
        /\ dcall.aa = Num(0)
        /\ dcall.ab # NaN /\ dcall.ba # NaN /\ dcall.ab = dcall.ba
        /\ Lte(Num(0), dcall.ab)

\* the same on every pair of points that are not antipodal to each other
DistanceLawsOffAntipodes ==
    (/\ dcall.pc = "done"
     /\ ~(dcall.a[1] = -dcall.b[1] /\ dcall.b[2] - dcall.a[2] \in {180000000, -180000000})) =>
        /\ dcall.aa = Num(0)
        /\ dcall.ab # NaN /\ dcall.ab = dcall.ba
        /\ Lte(Num(0), dcall.ab)


---------------------------------------------------------------------------
(* The order of the steps of a request *)

\* positions of event e in trace tr
At(tr, e) == {i \in 1..Len(tr) : tr[i] = e}

\* event e occurs in tr, once, and before every occurrence of event f
OnceBefore(tr, e, f) ==
    /\ Cardinality(At(tr, e)) = 1
    /\ \A i \in At(tr, e), j \in At(tr, f) : i < j

\* The order of an SOS request without the assessment: received and
\* authenticated, validated, recorded, notified (optional), responded, no
\* step taken twice, and a send only after the record is saved.
SosOrderWithoutAssessment ==
    /\ \A e \in {"auth", "check", "findUser", "new", "save", "send", "respond"} :
          Cardinality(At(sos.trace, e)) <= 1
    /\ At(sos.trace, "send") # {} => (sos.saved = "ok" /\ OnceBefore(sos.trace, "save", "send"))
    /\ (sos.pc = "done" /\ sos.status = 200) =>
          /\ OnceBefore(sos.trace, "auth", "check")
          /\ OnceBefore(sos.trace, "check", "save")
          /\ OnceBefore(sos.trace, "save", "respond")
          /\ sos.trace[Len(sos.trace)] = "respond"

\* C22: an SOS request goes through RECEIVED, VALIDATED, ASSESSED, RECORDED,
\* NOTIFIED (optional), RESPONDED in this order, no state skipped or
\* revisited: a request answered 200 was validated, then assessed by the
\* Risk Engine, then recorded, and a send is attempted only after the
\* record is saved.
C22_SosStagesInOrder ==
    /\ SosOrderWithoutAssessment
    /\ (sos.pc = "done" /\ sos.status = 200) =>
          /\ OnceBefore(sos.trace, "check", "scan")
          /\ OnceBefore(sos.trace, "scan", "save")


---------------------------------------------------------------------------
(* The matched zones of POST /api/location/assess, checked under SpecAssess *)

\* the index in the evaluated list of the k-th zone that contains the point
KthContaining(k) ==
    CHOOSE i \in Containing : Cardinality({j \in Containing : j < i}) = k - 1

\* C23: the matched zones of a 200 response are exactly the evaluated zones
\* whose distance to the point is <= radiusMeters, each once with its
\* distance, in the order of the evaluated list (not sorted by distance or
\* by severity).
C23_MatchedZonesInInputOrder ==
    Assessed =>
        /\ Len(asr.body.activeZones) = Cardinality(Containing)
        /\ \A k \in 1..Len(asr.body.activeZones) :
              LET z == asr.zones[KthContaining(k)]
                  m == asr.body.activeZones[k]
              IN  /\ m.id = z._id
                  /\ m.distanceMeters = DistanceTo(z)
                  /\ m.riskLevel = z.riskLevel
                  /\ m.radiusMeters = z.radiusMeters
                  /\ m.center = z.center

\* Two zones contain the point; the first of the list is the farther one
\* and the less severe one, and it is the first matched zone.
C23_Witness ==
    /\ Assessed
    /\ Len(asr.zones) = 2 /\ Len(asr.body.activeZones) = 2
    /\ Lt(DistanceTo(asr.zones[2]), DistanceTo(asr.zones[1]))
    /\ asr.zones[1].riskLevel = "CAUTION" /\ asr.zones[2].riskLevel = "DANGER"
    /\ asr.body.activeZones[1].id = asr.zones[1]._id
    /\ asr.body.activeZones[2].id = asr.zones[2]._id


---------------------------------------------------------------------------
(* What the response of an SOS tells, checked under SpecConc *)

\* C24: the response of a successful SOS carries the outcome of the
\* notifier (sent, skipped, failed), so that the caller can tell the
\* outcomes apart from the response body: two requests answered 200 whose
\* notifier outcomes differ have response bodies that differ in more than
\* the id of the record.
C24_ResponseCarriesNotifierOutcome ==
    (/\ sos.pc = "done" /\ sos.status = 200
     /\ parked.pc = "done" /\ parked.status = 200
     /\ sos.pushLog # parked.pushLog) =>
        Without(sos.data[1], {"id"}) # Without(parked.data[1], {"id"})


---------------------------------------------------------------------------
(* What the record of an SOS holds, checked under Spec *)

\* C25: the persisted record of an SOS contains the mode and the source of
\* the request, NORMAL and MOBILE_SOS when absent, so that the stored
\* record tells a DISCREET event from a NORMAL one.
C25_RecordHoldsModeAndSource ==
    sos.saved = "ok" =>
        \E k \in 1..Len(emergencies) :
            /\ emergencies[k]._id = sos.newEmergency[1]._id
            /\ {"mode", "source"} \subseteq DOMAIN emergencies[k]
            /\ emergencies[k].mode = OrDefault(sos.body.mode, "NORMAL")
            /\ emergencies[k].source = OrDefault(sos.body.source, "MOBILE_SOS")


\* C26: the user lookup comes before the save, so a record is saved only
\* if the lookup completed without error: a lookup that throws ends the
\* request with 500, no document built, no record and no send; a request
\* that saves has its user loaded first.
C26_LookupBeforeSave ==
    /\ [](At(sos.trace, "save") # {} =>
             /\ OnceBefore(sos.trace, "findUser", "save")
             /\ sos.user = FindUserById(sos.token))
    /\ []((sos.pc = "done" /\ At(sos.trace, "findUser") # {} /\ At(sos.trace, "save") = {}) =>
             /\ sos.status = 500
             /\ Len(sos.newEmergency) = 0 /\ sos.saved = "" /\ sos.sendCalls = 0)
    /\ [][(sos.pc = "findUser" /\ sos'.pc = "done") =>
             (emergencies' = emergencies /\ sendLog' = sendLog /\ nextId' = nextId)]_vars

\* The lookup threw for a valid request of a stored user: 500, nothing
\* saved.
C26_Witness ==
    /\ sos.pc = "done" /\ sos.status = 500 /\ sos.token = "u1"
    /\ sos.trace = <<"auth", "check", "findUser", "respond">>
    /\ ValidCoordinate(sos.body.latitude, sos.body.longitude)
    /\ Len(emergencies) = 0


\* C27: every record saved by an SOS is attributed to the authenticated
\* caller: the user of the document built, of the record saved and of the
\* response is the user id of the token, whatever userId the body carries.
C27_RecordAttributedToCaller ==
    Len(sos.newEmergency) = 1 =>
        /\ sos.token \in TokenUsers
        /\ sos.newEmergency[1].user = sos.token
        /\ \A k \in 1..Len(emergencies) :
              emergencies[k]._id = sos.newEmergency[1]._id => emergencies[k].user = sos.token
        /\ sos.status = 200 => sos.data[1].userId = sos.token

\* User u1 sent an SOS whose body names user u2: the record and the
\* response name u1.
C27_Witness ==
    /\ sos.pc = "done" /\ sos.status = 200
    /\ sos.token = "u1" /\ sos.body.userId = <<"u2">>
    /\ OwnRecordStored /\ sos.newEmergency[1].user = "u1" /\ sos.data[1].userId = "u1"


---------------------------------------------------------------------------
(* The coordinates of the records, checked under SpecAll *)

\* C28: every endpoint that creates an Emergency record first checks that
\* latitude and longitude are numbers: a request of the old endpoint or of
\* the SOS endpoint whose coordinates are not numbers is answered 400 with
\* no document built, and every persisted record has a numeric lat and lng.
C28_EveryRecordHasNumericCoordinates ==
    /\ \A k \in 1..Len(emergencies) :
          /\ TypeOf(emergencies[k].location.lat) = "number"
          /\ TypeOf(emergencies[k].location.lng) = "number"
    /\ (/\ sos.pc # "idle" /\ AuthPasses(sos.token)
        /\ BadCoordinateTypes(sos.body.latitude, sos.body.longitude)) =>
           (sos.pc = "done" /\ sos.status = 400 /\ Len(sos.newEmergency) = 0)
    /\ (leg.pc # "idle" /\ AuthPasses(leg.token) /\ BadCoordinateTypes(leg.lat, leg.lng)) =>
           (leg.pc = "done" /\ leg.status = 400 /\ Len(leg.newEmergency) = 0)

\* the same for the SOS endpoint alone
SosRecordsHaveNumericCoordinates ==
    /\ [][(sos.pc = "save" /\ sos'.saved = "ok") =>
             /\ TypeOf(emergencies'[Len(emergencies')].location.lat) = "number"
             /\ TypeOf(emergencies'[Len(emergencies')].location.lng) = "number"]_vars
    /\ []((/\ sos.pc # "idle" /\ AuthPasses(sos.token)
           /\ BadCoordinateTypes(sos.body.latitude, sos.body.longitude)) =>
              (sos.pc = "done" /\ sos.status = 400 /\ Len(sos.newEmergency) = 0))


---------------------------------------------------------------------------
(* The responses of SOS and assess, checked under SpecAll *)

\* request r has been answered exactly once if it is done and not at all
\* before, and the response is the last thing the handler did
AnsweredOnce(r) ==
    /\ Cardinality(At(r.trace, "respond")) = (IF r.pc = "done" THEN 1 ELSE 0)
    /\ r.pc = "done" =>
          (r.status \in {401, 400, 200, 500} /\ r.trace[Len(r.trace)] = "respond")
    /\ r.pc # "done" => r.status = 0

\* the calls a waiting request waits for can return and can throw, and
\* each outcome leads the handler on.  (A resolved DangerZone.find leads on
\* unconditionally: AssessFindResolves has no guard but the wait itself,
\* and its scan is a total computation.)
EveryWaitLeadsOn ==
    /\ sos.pc = "findUser" => (ENABLED SosFindUserResolves /\ ENABLED SosFindUserRejects)
    /\ sos.pc = "save" => (ENABLED SosSaveResolves /\ ENABLED SosSaveRejects)
    /\ sos.pc = "send" => (ENABLED SosSendResolves /\ ENABLED SosSendRejects)
    /\ asr.pc = "find" => ENABLED AssessFindRejects

AnsweredOnceWhileServing ==
    /\ AnsweredOnce(sos) /\ AnsweredOnce(asr)
    /\ sos.pc \in {"idle", "findUser", "save", "send", "done"}
    /\ asr.pc \in {"idle", "find", "done"}
    /\ ServerUp => EveryWaitLeadsOn

\* What the two functions keep of the recording: the refs, the listening
\* state, the recordings that run and the calls in flight.
RecordingState(v) ==
    <<v.recordingRef, v.stopTimerRef, v.isListening, v.prepared, v.loaded, v.live,
      v.inflight, v.isPreparing>>

====
